---- MODULE Spec2Model ----
(***************************************************************************)
(* Model of the automation service's core: BrowserManager (the session     *)
(* store), LoginFlow (the authentication flow) and ExtractOrchestrator.     *)
(*                                                                         *)
(* Every coroutine is cut at its awaits on the driver: one action runs a   *)
(* task from the completion of one await to the issue of the next.  The    *)
(* driver (Playwright) is the environment: each awaited driver call        *)
(* completes normally, with a timeout, or with a generic driver error.     *)
(* Browser.close() and Playwright.stop() are modelled as completing: the   *)
(* docstring of BrowserManager.close (browser.py:149-151) states that      *)
(* teardown does not raise.                                                *)
(***************************************************************************)
EXTENDS Integers, Sequences, FiniteSets, TLC

\* ---------------------------------------------------------------- bounds
NumCtx == 3
MaxLeaks == 2

Tasks == {"t1", "t2"}
Sids == {"s1", "s2"}
Ctxs == 1..NumCtx
NoCtx == 0
NoSid == "-"

\* Outcomes of an awaited driver call.
DriverFailures == {"Timeout", "DriverError"}
DriverOutcomes == {"ok"} \cup DriverFailures

VARIABLES
    playwright,   \* BrowserManager._playwright is set
    browser,      \* BrowserManager._browser: "none" or "set"
    connected,    \* Browser.is_connected(): the browser process is alive
    contexts,     \* BrowserManager._contexts: Sids -> context, NoCtx = key absent
    ctxState,     \* driver side: "free", "live" or "closed" for each context object
    leaked,       \* driver side: live contexts that nothing references any more
    task,         \* the coroutines: position, call stack and locals of each task
    extractors    \* ExtractorRegistry._extractors: registered names, in dict order

vars == <<playwright, browser, connected, contexts, ctxState, leaked, task, extractors>>

\* ------------------------------------------------------------------ text
\* Strings the code inspects are sequences of characters.
LowerCh(c) ==
    CASE c = "A" -> "a" [] c = "C" -> "c" [] c = "D" -> "d" [] c = "E" -> "e"
      [] c = "G" -> "g" [] c = "H" -> "h" [] c = "L" -> "l" [] c = "M" -> "m"
      [] c = "N" -> "n" [] c = "O" -> "o" [] c = "P" -> "p" [] c = "R" -> "r"
      [] c = "S" -> "s" [] c = "T" -> "t" [] c = "U" -> "u" [] c = "V" -> "v"
      [] c = "Í" -> "í" [] OTHER -> c

\* str.lower()
Lower(str) == [i \in 1..Len(str) |-> LowerCh(str[i])]

\* sub in str
Contains(sub, str) ==
    \E i \in 0..(Len(str) - Len(sub)) : SubSeq(str, i + 1, i + Len(sub)) = sub

\* The membership options the selection page can offer: the ClubInfo built
\* for each radio option from its value and its label text.
Club(k) ==
    CASE k = 1 -> [id |-> 1, name |-> <<"P", "e", "n", "i", "e", "l">>,
                   club_type |-> <<"A", "v", "e", "n", "t", "u", "r", "e", "r", "o", "s">>,
                   full_text |-> <<"C", "l", "u", "b", " ", "P", "e", "n", "i", "e", "l", ",", " ", "C", "l", "u", "b", " ", "d", "e", " ", "A", "v", "e", "n", "t", "u", "r", "e", "r", "o", "s", " ", "c", "o", "m", "o", " ", "D", "i", "r", "e", "c", "t", "o", "r">>]
      [] k = 2 -> [id |-> 2, name |-> <<"H", "o", "r", "e", "b">>,
                   club_type |-> <<"C", "o", "n", "q", "u", "i", "s", "t", "a", "d", "o", "r", "e", "s">>,
                   full_text |-> <<"C", "l", "u", "b", " ", "H", "o", "r", "e", "b", ",", " ", "C", "l", "u", "b", " ", "d", "e", " ", "C", "o", "n", "q", "u", "i", "s", "t", "a", "d", "o", "r", "e", "s">>]
      [] k = 3 -> [id |-> 3, name |-> <<"S", "i", "o", "n">>,
                   club_type |-> <<>>,
                   full_text |-> <<"C", "l", "u", "b", " ", "S", "i", "o", "n", ",", " ", "C", "l", "u", "b", " ", "d", "e", " ", "C", "a", "s", "t", "o", "r", "e", "s">>]
      \* a ClubInfo built without its optional full_text (schemas.py:226)
      [] k = 4 -> [id |-> 4, name |-> <<"P", "e", "n", "i", "e", "l">>,
                   club_type |-> <<"A", "v", "e", "n", "t", "u", "r", "e", "r", "o", "s">>,
                   full_text |-> <<>>]

\* Lists _extract_clubs can return (an exception part-way returns what was
\* collected so far).
PageClubLists == {<<>>, <<1>>, <<1, 2>>, <<3, 1>>}

\* Selector inputs <<club_id, club_type, club_name>>.  An absent (None) or
\* empty selector is the empty sequence: the code only tests selectors for
\* truthiness.
S_aventureros == <<"a", "v", "e", "n", "t", "u", "r", "e", "r", "o", "s">>
S_castores == <<"c", "a", "s", "t", "o", "r", "e", "s">>
S_peniel == <<"p", "e", "n", "i", "e", "l">>
S_Sion == <<"S", "i", "o", "n">>

SelectorInputs ==
    { <<<<>>, <<>>, <<>>>>,
      <<<<1>>, <<>>, <<>>>>,
      <<<<7>>, <<>>, <<>>>>,
      <<<<0>>, <<>>, <<>>>>,
      <<<<1>>, S_aventureros, S_Sion>>,
      <<<<0>>, S_aventureros, S_peniel>>,
      <<<<>>, S_aventureros, S_peniel>>,
      <<<<>>, S_aventureros, S_Sion>>,
      <<<<>>, S_castores, S_Sion>>,
      <<<<>>, S_aventureros, <<>>>>,
      <<<<>>, <<>>, S_peniel>> }

\* Python truthiness of an optional int / optional str.
TruthyId(x) == x # <<>> /\ x[1] # 0
TruthyStr(x) == x # <<>>

\* page.url after the form was submitted, by the substring tests the code makes.
Urls == {"login_error", "select_club", "dashboard"}

\* ------------------------------------------------------------ call stack
\* A frame names the call site the running callee returns to.
\* "top" is the caller outside the model (the HTTP layer).
IdleTask ==
    [pc |-> "idle", op |-> "none", stack |-> <<>>, sid |-> NoSid,
     old |-> NoCtx, ctx |-> NoCtx, todo |-> {}, exc |-> "none",
     outcome |-> "none",
     \* close(): how many of the awaited context closes failed
     nfail |-> 0,
     \* LoginFlow.execute
     club_id |-> <<>>, club_type |-> <<>>, club_name |-> <<>>,
     step |-> 0, url |-> "none", error_text |-> "none", clubs |-> <<>>,
     selected_club |-> 0, clicked |-> 0, pend |-> "none", msg |-> "none",
     hist |-> <<>>,
     \* the targets of the page.goto calls issued so far in this operation
     navs |-> <<>>,
     \* the details dictionary of the LoginError of lines 212-219
     details |-> <<>>,
     \* ClubVirtualService.login: the save_session argument
     save |-> FALSE,
     \* save_session: the path argument and the returned location
     path |-> "none", location |-> "none",
     \* ExtractorRegistry.get: the name asked for, and the names listed in
     \* the message of its ValueError
     name |-> "none", available |-> <<>>,
     \* ExtractOrchestrator.extract; req_include is the include argument as
     \* the caller gave it
     req_include |-> <<>>, include |-> <<>>, session_id |-> NoSid, idx |-> 0, extracted_data |-> <<>>,
     errors |-> <<>>, attempted |-> <<>>, screenshot |-> FALSE,
     res |-> "none", res_sid |-> NoSid, res_data |-> {}, res_errors |-> <<>>,
     \* a pure function applied on its own: what its argument was built from,
     \* the argument, and the value returned
     parts |-> <<>>, arg |-> <<>>, result |-> <<>>]

\* Where a callee's normal return resumes the caller.
RetPc(site) ==
    CASE site = "top" -> "done"
      [] site = "L109" -> "lf_main"
      [] site = "L137" -> "lf_raise_rejected"
      [] site = "L169" -> "lf_raise_nav"
      [] site = "L172" -> "lf_raise_login"
      [] site = "O143" -> "ox_after_login"
      [] site = "O226" -> "ox_return"
      [] site = "V249" -> "cv_main"
      [] site = "V324" -> "cv_reraise"
      [] site = "V327" -> "cv_raise_nav"
      [] site = "V330" -> "cv_raise_login"
      [] site = "V1262" -> "lo_return"

\* Where an exception leaving the callee lands in the caller.
ExcPc(site) ==
    CASE site = "top" -> "done"
      [] site \in {"L109", "L137"} -> "lf_except"
      [] site \in {"L169", "L172"} -> "lf_propagate"
      [] site = "O143" -> "ox_except"
      [] site = "O226" -> "ox_propagate"
      [] site = "V249" -> "cv_except"
      [] site \in {"V324", "V327", "V330"} -> "cv_propagate"
      [] site = "V1262" -> "lo_propagate"

DoReturn(tk) ==
    LET site == Head(tk.stack) IN
    [tk EXCEPT !.stack = Tail(@), !.pc = RetPc(site),
               !.outcome = IF site = "top" THEN "returned" ELSE @]

DoRaise(tk, e) ==
    LET site == Head(tk.stack) IN
    [tk EXCEPT !.stack = Tail(@), !.pc = ExcPc(site), !.exc = e,
               !.outcome = IF site = "top" THEN "raised" ELSE @]

Call(tk, site, entry) ==
    [tk EXCEPT !.stack = <<site>> \o @, !.pc = entry]

\* ------------------------------------------------------------ driver side
Referenced(c) ==
    \/ \E s \in Sids : contexts[s] = c
    \/ \E t \in Tasks : task[t].old = c \/ task[t].ctx = c \/ c \in task[t].todo

\* A context object nobody holds any more cannot be reached again: if the
\* driver has closed it, it is garbage; if it is still live, it is leaked
\* until the browser goes.  Either way its slot is free to carry a newly
\* created context.  Settle is the last conjunct of every action (it reads
\* contexts' and task'); cs is the driver's state after the action, lk the
\* leaked count it starts from.
Settle(cs, lk) ==
    LET dropped == {c \in Ctxs : cs[c] # "free" /\ ~Referenced(c)'} IN
    /\ ctxState' = [c \in Ctxs |-> IF c \in dropped THEN "free" ELSE cs[c]]
    /\ leaked' = lk + Cardinality({c \in dropped : cs[c] = "live"})
    /\ leaked' <= MaxLeaks

Same == Settle(ctxState, leaked)

FreeCtxs == {c \in Ctxs : ctxState[c] = "free"}
NewCtx == CHOOSE c \in FreeCtxs : \A d \in FreeCtxs : c <= d

\* BrowserContext.close(): on success the context is closed; on failure it
\* may or may not have been closed.
Closed(c) == [ctxState EXCEPT ![c] = IF @ = "live" THEN "closed" ELSE @]
CloseResults(c, o) == IF o = "ok" THEN {Closed(c)} ELSE {Closed(c), ctxState}

KillAll == [c \in Ctxs |-> IF ctxState[c] = "live" THEN "closed" ELSE ctxState[c]]

\* The browser process dies or loses its connection (environment).
BrowserCrash ==
    /\ browser = "set" /\ connected
    /\ connected' = FALSE
    /\ UNCHANGED <<playwright, browser, contexts, task, extractors>>
    /\ Settle(KillAll, 0)

\* ------------------------------------------------------- BrowserManager
\* initialize(): start Playwright, launch Chromium; any failure is BrowserError.
Initialize(t) ==
    /\ task[t].pc = "idle"
    /\ browser = "none"
    /\ \/ /\ playwright' = TRUE /\ browser' = "set" /\ connected' = TRUE
          /\ task' = [task EXCEPT ![t] = [IdleTask EXCEPT !.pc = "done",
                         !.op = "initialize", !.outcome = "returned"]]
       \/ /\ playwright' \in {playwright, TRUE}
          /\ UNCHANGED <<browser, connected>>
          /\ task' = [task EXCEPT ![t] = [IdleTask EXCEPT !.pc = "done",
                         !.op = "initialize", !.outcome = "raised",
                         !.exc = "BrowserError"]]
    /\ UNCHANGED <<contexts, extractors>>
    /\ Same

\* is_ready without the is_connected() test.
is_ready_BrowserSet == browser # "none"

\* is_ready, lines 175-186.
is_ready == browser # "none" /\ connected

\* create_context without lines 231-232: the existing context is not closed.
CcStart_NoClose(t) ==
    LET tk == task[t] IN
    /\ tk.pc = "cc_start"
    /\ IF browser = "none"
       THEN task' = [task EXCEPT ![t] = DoRaise(tk, "BrowserError")]
       ELSE task' = [task EXCEPT ![t] =
                [tk EXCEPT !.pc = "cc_creating", !.old = contexts[tk.sid]]]
    /\ UNCHANGED <<playwright, browser, connected, contexts, extractors>>
    /\ Same

\* create_context, lines 227-232: browser check, then the await on the old
\* context's close() or straight on to new_context().
CcStart(t) ==
    LET tk == task[t] IN
    /\ tk.pc = "cc_start"
    /\ IF browser = "none"
       THEN task' = [task EXCEPT ![t] = DoRaise(tk, "BrowserError")]
       ELSE IF contexts[tk.sid] # NoCtx
            THEN task' = [task EXCEPT ![t] =
                     [tk EXCEPT !.pc = "cc_closing", !.old = contexts[tk.sid]]]
            ELSE task' = [task EXCEPT ![t] = [tk EXCEPT !.pc = "cc_creating"]]
    /\ UNCHANGED <<playwright, browser, connected, contexts, extractors>>
    /\ Same

\* create_context that drops the identifier from the map when the close() of
\* line 232 fails.
CcClosed_UnmapsOnFailure(t) ==
    LET tk == task[t] IN
    /\ tk.pc = "cc_closing"
    /\ \E o \in DriverOutcomes : \E cs \in CloseResults(tk.old, o) :
        /\ IF o # "ok"
           THEN /\ task' = [task EXCEPT ![t] = DoRaise([tk EXCEPT !.old = NoCtx], o)]
                /\ contexts' = [contexts EXCEPT ![tk.sid] = NoCtx]
           ELSE /\ UNCHANGED contexts
                /\ IF browser = "none"
                   THEN task' = [task EXCEPT ![t] =
                            DoRaise([tk EXCEPT !.old = NoCtx], "AttributeError")]
                   ELSE task' = [task EXCEPT ![t] = [tk EXCEPT !.pc = "cc_creating"]]
        /\ UNCHANGED <<playwright, browser, connected, extractors>>
        /\ Settle(cs, leaked)

\* create_context, line 232 completes; lines 234-247 issue new_context().
CcClosed(t) ==
    LET tk == task[t] IN
    /\ tk.pc = "cc_closing"
    /\ \E o \in DriverOutcomes : \E cs \in CloseResults(tk.old, o) :
        /\ IF o # "ok"
           THEN task' = [task EXCEPT ![t] = DoRaise([tk EXCEPT !.old = NoCtx], o)]
           ELSE IF browser = "none"
                THEN task' = [task EXCEPT ![t] =
                         DoRaise([tk EXCEPT !.old = NoCtx], "AttributeError")]
                ELSE task' = [task EXCEPT ![t] = [tk EXCEPT !.pc = "cc_creating"]]
        /\ UNCHANGED <<playwright, browser, connected, contexts, extractors>>
        /\ Settle(cs, leaked)

\* create_context that closes whatever the map holds under the identifier
\* right before line 250 stores the new context.
CcCreated_CloseStale(t) ==
    LET tk == task[t]
        stale == contexts[tk.sid]
        cs == IF stale = NoCtx THEN ctxState ELSE [ctxState EXCEPT ![stale] = "closed"] IN
    /\ tk.pc = "cc_creating"
    /\ UNCHANGED <<playwright, browser, connected, extractors>>
    /\ \/ /\ FreeCtxs # {}
          /\ contexts' = [contexts EXCEPT ![tk.sid] = NewCtx]
          /\ task' = [task EXCEPT ![t] = DoReturn([tk EXCEPT !.ctx = NewCtx])]
          /\ Settle([cs EXCEPT ![NewCtx] = IF connected THEN "live" ELSE "closed"],
                    leaked)
       \/ \E o \in DriverFailures :
            /\ task' = [task EXCEPT ![t] = DoRaise(tk, o)]
            /\ UNCHANGED contexts
            /\ Same

\* create_context, line 247 completes; lines 248-253 store and return.
CcCreated(t) ==
    LET tk == task[t] IN
    /\ tk.pc = "cc_creating"
    /\ UNCHANGED <<playwright, browser, connected, extractors>>
    /\ \/ /\ FreeCtxs # {}
          /\ contexts' = [contexts EXCEPT ![tk.sid] = NewCtx]
          /\ task' = [task EXCEPT ![t] = DoReturn([tk EXCEPT !.ctx = NewCtx])]
          /\ Settle([ctxState EXCEPT ![NewCtx] = IF connected THEN "live" ELSE "closed"],
                    leaked)
       \/ \E o \in DriverFailures :
            /\ task' = [task EXCEPT ![t] = DoRaise(tk, o)]
            /\ UNCHANGED contexts
            /\ Same

\* close_context, lines 280-281: membership test, await on close().
XcStart(t) ==
    LET tk == task[t] IN
    /\ tk.pc = "xc_start"
    /\ IF contexts[tk.sid] # NoCtx
       THEN task' = [task EXCEPT ![t] =
                [tk EXCEPT !.pc = "xc_closing", !.old = contexts[tk.sid]]]
       ELSE task' = [task EXCEPT ![t] = DoReturn(tk)]
    /\ UNCHANGED <<playwright, browser, connected, contexts, extractors>>
    /\ Same

\* close_context that empties the whole session map where line 282 deletes
\* one key.
XcClosed_ClearsMap(t) ==
    LET tk == task[t] IN
    /\ tk.pc = "xc_closing"
    /\ \E o \in DriverOutcomes : \E cs \in CloseResults(tk.old, o) :
        /\ IF o # "ok"
           THEN /\ task' = [task EXCEPT ![t] = DoRaise([tk EXCEPT !.old = NoCtx], o)]
                /\ UNCHANGED contexts
           ELSE IF contexts[tk.sid] = NoCtx
                THEN /\ task' = [task EXCEPT ![t] =
                            DoRaise([tk EXCEPT !.old = NoCtx], "KeyError")]
                     /\ UNCHANGED contexts
                ELSE /\ contexts' = [s \in Sids |-> NoCtx]
                     /\ task' = [task EXCEPT ![t] = DoReturn(tk)]
        /\ UNCHANGED <<playwright, browser, connected, extractors>>
        /\ Settle(cs, leaked)

\* close_context, line 281 completes; line 282 deletes the key.
XcClosed(t) ==
    LET tk == task[t] IN
    /\ tk.pc = "xc_closing"
    /\ \E o \in DriverOutcomes : \E cs \in CloseResults(tk.old, o) :
        /\ IF o # "ok"
           THEN /\ task' = [task EXCEPT ![t] = DoRaise([tk EXCEPT !.old = NoCtx], o)]
                /\ UNCHANGED contexts
           ELSE IF contexts[tk.sid] = NoCtx
                THEN /\ task' = [task EXCEPT ![t] =
                            DoRaise([tk EXCEPT !.old = NoCtx], "KeyError")]
                     /\ UNCHANGED contexts
                ELSE /\ contexts' = [contexts EXCEPT ![tk.sid] = NoCtx]
                     /\ task' = [task EXCEPT ![t] = DoReturn(tk)]
        /\ UNCHANGED <<playwright, browser, connected, extractors>>
        /\ Settle(cs, leaked)

\* close(), lines 161-171 from the end of the loop to the next await.
AfterLoop(tk) ==
    IF browser = "set" THEN [tk EXCEPT !.pc = "td_browser", !.old = NoCtx]
    ELSE IF playwright THEN [tk EXCEPT !.pc = "td_stop", !.old = NoCtx]
    ELSE DoReturn([tk EXCEPT !.old = NoCtx])

\* close(), line 154: snapshot of the map, first await of the loop.
TdStart(t) ==
    LET tk == task[t]
        snap == {contexts[s] : s \in {x \in Sids : contexts[x] # NoCtx}} IN
    /\ tk.pc = "td_start"
    /\ IF snap = {}
       THEN /\ task' = [task EXCEPT ![t] = AfterLoop(tk)]
            /\ contexts' = [s \in Sids |-> NoCtx]
       ELSE /\ \E c \in snap :
                 task' = [task EXCEPT ![t] =
                     [tk EXCEPT !.pc = "td_closing", !.old = c, !.todo = snap \ {c}]]
            /\ UNCHANGED contexts
    /\ UNCHANGED <<playwright, browser, connected, extractors>>
    /\ Same

\* close() without the try/except of lines 155-159: a failed close() of one
\* context propagates out of the loop.
TdClosed_Raises(t) ==
    LET tk == task[t] IN
    /\ tk.pc = "td_closing"
    /\ \E o \in DriverOutcomes : \E cs \in CloseResults(tk.old, o) :
        /\ IF o # "ok"
           THEN /\ task' = [task EXCEPT ![t] =
                       DoRaise([tk EXCEPT !.old = NoCtx, !.todo = {}], o)]
                /\ UNCHANGED contexts
           ELSE IF tk.todo = {}
                THEN /\ task' = [task EXCEPT ![t] = AfterLoop(tk)]
                     /\ contexts' = [s \in Sids |-> NoCtx]
                ELSE /\ \E c \in tk.todo :
                          task' = [task EXCEPT ![t] =
                              [tk EXCEPT !.old = c, !.todo = tk.todo \ {c}]]
                     /\ UNCHANGED contexts
        /\ UNCHANGED <<playwright, browser, connected, extractors>>
        /\ Settle(cs, leaked)

\* close(), lines 155-159: one context's close() completes, failure is logged.
TdClosed(t) ==
    LET tk == task[t] IN
    /\ tk.pc = "td_closing"
    /\ \E o \in DriverOutcomes : \E cs \in CloseResults(tk.old, o) :
        LET tk1 == [tk EXCEPT !.nfail = IF o = "ok" THEN @ ELSE @ + 1] IN
        /\ IF tk.todo = {}
           THEN /\ task' = [task EXCEPT ![t] = AfterLoop(tk1)]
                /\ contexts' = [s \in Sids |-> NoCtx]
           ELSE /\ \E c \in tk.todo :
                     task' = [task EXCEPT ![t] =
                         [tk1 EXCEPT !.old = c, !.todo = tk.todo \ {c}]]
                /\ UNCHANGED contexts
        /\ UNCHANGED <<playwright, browser, connected, extractors>>
        /\ Settle(cs, leaked)

\* close(), lines 165-166: the browser has closed, taking its contexts along.
TdBrowser(t) ==
    LET tk == task[t] IN
    /\ tk.pc = "td_browser"
    /\ connected' = FALSE
    /\ browser' = "none"
    /\ task' = [task EXCEPT ![t] =
           IF playwright THEN [tk EXCEPT !.pc = "td_stop"] ELSE DoReturn(tk)]
    /\ UNCHANGED <<playwright, contexts, extractors>>
    /\ Settle(KillAll, 0)

\* close(), lines 170-173.
TdStop(t) ==
    LET tk == task[t] IN
    /\ tk.pc = "td_stop"
    /\ playwright' = FALSE
    /\ task' = [task EXCEPT ![t] = DoReturn(tk)]
    /\ UNCHANGED <<browser, connected, contexts, extractors>>
    /\ Same

\* ------------------------------------------------------------ LoginFlow
\* uuid.uuid4(): an identifier nothing in the system knows.  Identifiers are
\* interchangeable, so the first unknown one stands for all of them.
SidOrder == <<"s1", "s2", "s3", "s4">>
UnknownSids ==
    {s \in Sids : contexts[s] = NoCtx /\ \A t \in Tasks : task[t].sid # s}
FreshSids ==
    {s \in UnknownSids :
        \A i, j \in 1..Len(SidOrder) :
            (SidOrder[i] = s /\ SidOrder[j] \in UnknownSids) => i <= j}

\* Index of the first element of seq satisfying P, 0 when there is none.
FirstIdx(seq, P(_)) ==
    IF \E i \in 1..Len(seq) : P(seq[i])
    THEN CHOOSE i \in 1..Len(seq) : P(seq[i]) /\ \A j \in 1..(i - 1) : ~P(seq[j])
    ELSE 0

\* _find_club_by_type_and_name over a list of option numbers; the result is
\* the position of the club in the list, 0 for None.
FullText(c) ==
    IF c.full_text # <<>> THEN c.full_text ELSE c.name \o <<" ">> \o c.club_type

StrictMatch(k, club_type, club_name) ==
    /\ Club(k).club_type # <<>>
    /\ Contains(Lower(club_type), Lower(Club(k).club_type))
    /\ Contains(Lower(club_name), Lower(Club(k).name))

LenientMatch(k, club_type, club_name) ==
    /\ Contains(Lower(club_type), Lower(FullText(Club(k))))
    /\ Contains(Lower(club_name), Lower(FullText(Club(k))))

\* _find_club_by_type_and_name without the lenient second loop of lines 244-248.
find_club_StrictOnly(clubs, club_type, club_name) ==
    LET strict(k) == StrictMatch(k, club_type, club_name) IN
    FirstIdx(clubs, strict)

find_club_by_type_and_name(clubs, club_type, club_name) ==
    LET strict(k) == StrictMatch(k, club_type, club_name)
        lenient(k) == LenientMatch(k, club_type, club_name) IN
    IF FirstIdx(clubs, strict) # 0 THEN FirstIdx(clubs, strict)
    ELSE FirstIdx(clubs, lenient)

\* A page operation on a context that is no longer live fails.
PageOutcomes(tk) ==
    IF tk.ctx # NoCtx /\ ctxState[tk.ctx] = "live" THEN DriverOutcomes
    ELSE {"DriverError"}

\* execute, lines 105-109: a fresh session id, then create_context.
LoginEntry(tk, site, sel) ==
    {Call(Call([tk EXCEPT !.sid = s, !.club_id = sel[1], !.club_type = sel[2],
                          !.club_name = sel[3], !.hist = <<"Start">>],
               site, "lf_entry"), "L109", "cc_start") : s \in FreshSids}

StartLogin(t) ==
    /\ task[t].pc = "idle"
    /\ \E sel \in SelectorInputs :
       \E tk \in LoginEntry([IdleTask EXCEPT !.op = "login"], "top", sel) :
        task' = [task EXCEPT ![t] = tk]
    /\ UNCHANGED <<playwright, browser, connected, contexts, extractors>>
    /\ Same

\* The awaits of lines 110-132, one per step.
LoginSteps == <<"new_page", "goto", "fill_username", "fill_password", "click", "wait">>

\* execute without the rejection check of line 135: the rejection route is
\* handled like any page that is not the selection surface.
AfterSubmit_NoRejectionCheck(tk, u) ==
    LET tk1 == [tk EXCEPT !.url = u, !.step = 0,
                          !.hist = Append(@, "CredentialsSubmitted")] IN
    IF u = "select_club"
    THEN [tk1 EXCEPT !.pc = "hc_extract",
                     !.hist = Append(@, "ClubSelectionPending")]
    ELSE [tk1 EXCEPT !.pc = "lf_wait_dash",
                     !.hist = Append(@, "DirectDashboard")]

\* _handle_club_selection without the early return of lines 191-192: the
\* options are looked for on whatever page follows the login.
AfterSubmit_NoSurfaceCheck(tk, u) ==
    LET tk1 == [tk EXCEPT !.url = u, !.step = 0,
                          !.hist = Append(@, "CredentialsSubmitted")] IN
    IF u = "login_error" THEN [tk1 EXCEPT !.pc = "lf_get_error"]
    ELSE [tk1 EXCEPT !.pc = "hc_extract",
                     !.hist = Append(@, IF u = "select_club" THEN "ClubSelectionPending"
                                        ELSE "DirectDashboard")]

\* _handle_club_selection, lines 188-192, when the page is not the selection
\* surface: nothing is awaited, execute goes on to line 149.
AfterSubmit(tk, u) ==
    LET tk1 == [tk EXCEPT !.url = u, !.step = 0,
                          !.hist = Append(@, "CredentialsSubmitted")] IN
    IF u = "login_error" THEN [tk1 EXCEPT !.pc = "lf_get_error"]
    ELSE IF u = "select_club"
         THEN [tk1 EXCEPT !.pc = "hc_extract",
                          !.hist = Append(@, "ClubSelectionPending")]
         ELSE [tk1 EXCEPT !.pc = "lf_wait_dash",
                          !.hist = Append(@, "DirectDashboard")]

\* An awaited page operation of execute raised: control enters the except
\* clauses, which read none of the locals of the try body.
Failed(tk, e) ==
    [tk EXCEPT !.pc = "lf_except", !.exc = e, !.step = 0, !.url = "none",
               !.clubs = <<>>, !.selected_club = 0]

\* Step i of LoginSteps is attempted: line 116 is the navigation to the
\* login surface.
Navigated(tk, i) ==
    IF LoginSteps[i] = "goto" THEN [tk EXCEPT !.navs = Append(@, "login")] ELSE tk

\* execute, lines 110-135: one awaited page operation completes.
LfMain(t) ==
    LET tk == task[t]
        i == tk.step + 1 IN
    /\ tk.pc = "lf_main"
    /\ \E o \in PageOutcomes(tk) :
        LET tk0 == Navigated(tk, i) IN
        IF o # "ok"
        THEN task' = [task EXCEPT ![t] = Failed(tk0, o)]
        ELSE IF i < Len(LoginSteps)
             THEN task' = [task EXCEPT ![t] = [tk0 EXCEPT !.step = i]]
             ELSE \E u \in Urls : task' = [task EXCEPT ![t] = AfterSubmit(tk0, u)]
    /\ UNCHANGED <<playwright, browser, connected, contexts, extractors>>
    /\ Same

\* _get_error_message, lines 252-260, by what the login page shows.
get_error_message(elem) ==
    CASE elem = "text" -> "page_text"
      [] elem = "empty" -> "Unknown error"
      [] OTHER -> "Invalid credentials"

\* execute, lines 136-137: read the error text, then close_context.
LfGetError(t) ==
    LET tk == task[t] IN
    /\ tk.pc = "lf_get_error"
    /\ \E elem \in (IF "ok" \in PageOutcomes(tk)
                    THEN {"text", "empty", "absent", "raises"} ELSE {"raises"}) :
        task' = [task EXCEPT ![t] =
            Call([tk EXCEPT !.error_text = get_error_message(elem),
                            !.hist = Append(@, "Rejected")], "L137", "xc_start")]
    /\ UNCHANGED <<playwright, browser, connected, contexts, extractors>>
    /\ Same

\* f"{c.name} ({c.club_type})", line 211; None is formatted as "None".
Display(c) ==
    c.name \o <<" ", "(">>
           \o (IF c.club_type = <<>> THEN <<"N", "o", "n", "e">> ELSE c.club_type)
           \o <<")">>

\* The details of the LoginError raised at lines 212-219.
ClubNotFound(club_type, club_name, clubs) ==
    [requested_type |-> club_type, requested_name |-> club_name,
     available_clubs |-> [i \in 1..Len(clubs) |-> Display(Club(clubs[i]))]]

\* _handle_club_selection, lines 194-222, with the default first option
\* taken when the type+name pair matches nothing.
handle_club_selection_DefaultOnMiss(tk, clubs) ==
    LET byId(k) == Club(k).id = tk.club_id[1]
        tk1 == [tk EXCEPT !.clubs = clubs] IN
    IF TruthyId(tk.club_id)
    THEN IF FirstIdx(clubs, byId) # 0
         THEN [tk1 EXCEPT !.selected_club = FirstIdx(clubs, byId), !.pc = "hc_select"]
         ELSE [tk1 EXCEPT !.pc = "lf_wait_dash"]
    ELSE IF TruthyStr(tk.club_type) /\ TruthyStr(tk.club_name)
            /\ find_club_by_type_and_name(clubs, tk.club_type, tk.club_name) # 0
    THEN [tk1 EXCEPT !.selected_club =
              find_club_by_type_and_name(clubs, tk.club_type, tk.club_name),
                     !.pc = "hc_select"]
    ELSE IF clubs # <<>>
    THEN [tk1 EXCEPT !.selected_club = 1, !.pc = "hc_select"]
    ELSE [tk1 EXCEPT !.pc = "lf_wait_dash"]

\* _handle_club_selection with `elif club_type or club_name` at line 200: an
\* incomplete pair is searched instead of falling through to the default.
handle_club_selection_PartialPair(tk, clubs) ==
    LET byId(k) == Club(k).id = tk.club_id[1]
        tk1 == [tk EXCEPT !.clubs = clubs] IN
    IF TruthyId(tk.club_id)
    THEN IF FirstIdx(clubs, byId) # 0
         THEN [tk1 EXCEPT !.selected_club = FirstIdx(clubs, byId), !.pc = "hc_select"]
         ELSE [tk1 EXCEPT !.pc = "lf_wait_dash"]
    ELSE IF TruthyStr(tk.club_type) \/ TruthyStr(tk.club_name)
    THEN IF find_club_by_type_and_name(clubs, tk.club_type, tk.club_name) # 0
         THEN [tk1 EXCEPT !.selected_club =
                   find_club_by_type_and_name(clubs, tk.club_type, tk.club_name),
                          !.pc = "hc_select"]
         ELSE [tk1 EXCEPT !.pc = "lf_except", !.exc = "LoginError",
                          !.msg = "club_not_found",
                          !.details = ClubNotFound(tk.club_type, tk.club_name, clubs)]
    ELSE IF clubs # <<>>
    THEN [tk1 EXCEPT !.selected_club = 1, !.pc = "hc_select"]
    ELSE [tk1 EXCEPT !.pc = "lf_wait_dash"]

\* _extract_clubs and the decision of _handle_club_selection, lines 194-222.
handle_club_selection(tk, clubs) ==
    LET byId(k) == Club(k).id = tk.club_id[1]
        tk1 == [tk EXCEPT !.clubs = clubs] IN
    IF TruthyId(tk.club_id)
    THEN IF FirstIdx(clubs, byId) # 0
         THEN [tk1 EXCEPT !.selected_club = FirstIdx(clubs, byId), !.pc = "hc_select"]
         ELSE [tk1 EXCEPT !.pc = "lf_wait_dash"]
    ELSE IF TruthyStr(tk.club_type) /\ TruthyStr(tk.club_name)
    THEN IF find_club_by_type_and_name(clubs, tk.club_type, tk.club_name) # 0
         THEN [tk1 EXCEPT !.selected_club =
                   find_club_by_type_and_name(clubs, tk.club_type, tk.club_name),
                          !.pc = "hc_select"]
         ELSE [tk1 EXCEPT !.pc = "lf_except", !.exc = "LoginError",
                          !.msg = "club_not_found",
                          !.details = ClubNotFound(tk.club_type, tk.club_name, clubs)]
    ELSE IF clubs # <<>>
    THEN [tk1 EXCEPT !.selected_club = 1, !.pc = "hc_select"]
    ELSE [tk1 EXCEPT !.pc = "lf_wait_dash"]

HcExtract(t) ==
    LET tk == task[t] IN
    /\ tk.pc = "hc_extract"
    /\ \E clubs \in (IF "ok" \in PageOutcomes(tk) THEN PageClubLists ELSE {<<>>}) :
        task' = [task EXCEPT ![t] = handle_club_selection(tk, clubs)]
    /\ UNCHANGED <<playwright, browser, connected, contexts, extractors>>
    /\ Same

\* _select_club without the try/except of lines 355-361: a failed click or
\* wait propagates into execute's except clauses.
HcSelect_Fatal(t) ==
    LET tk == task[t] IN
    /\ tk.pc = "hc_select"
    /\ \E n \in (IF "ok" \in PageOutcomes(tk) THEN 0..2 ELSE {0}) :
       \E u \in (IF n = 2 THEN {"select_club", "dashboard"} ELSE {tk.url}) :
        task' = [task EXCEPT ![t] =
            IF n < 2 THEN Failed(tk, "Timeout")
            ELSE [tk EXCEPT !.clicked = n, !.url = u, !.pc = "lf_wait_dash"]]
    /\ UNCHANGED <<playwright, browser, connected, contexts, extractors>>
    /\ Same

\* _select_club, lines 353-361: click the option, click the confirmation,
\* wait; any failure is logged and swallowed.  clicked counts the clicks made.
HcSelect(t) ==
    LET tk == task[t] IN
    /\ tk.pc = "hc_select"
    /\ \E n \in (IF "ok" \in PageOutcomes(tk) THEN 0..2 ELSE {0}) :
       \E u \in (IF n = 2 THEN {"select_club", "dashboard"} ELSE {tk.url}) :
        task' = [task EXCEPT ![t] =
            [tk EXCEPT !.clicked = n, !.url = u, !.pc = "lf_wait_dash"]]
    /\ UNCHANGED <<playwright, browser, connected, contexts, extractors>>
    /\ Same

\* execute, lines 149-164: the last wait, then the LoginResult.
LfWaitDash(t) ==
    LET tk == task[t] IN
    /\ tk.pc = "lf_wait_dash"
    /\ \E o \in PageOutcomes(tk) :
        IF o # "ok"
        THEN task' = [task EXCEPT ![t] = Failed(tk, o)]
        ELSE task' = [task EXCEPT ![t] =
                 DoReturn([tk EXCEPT !.hist = Append(@, "Authenticated")])]
    /\ UNCHANGED <<playwright, browser, connected, contexts, extractors>>
    /\ Same

\* execute, lines 166-172: the except clauses.
LfExcept(t) ==
    LET tk == task[t] IN
    /\ tk.pc = "lf_except"
    /\ task' = [task EXCEPT ![t] =
         IF tk.exc = "LoginError"
         THEN DoRaise([tk EXCEPT !.hist = Append(@, "Failed")], "LoginError")
         ELSE IF tk.exc = "Timeout"
              THEN Call([tk EXCEPT !.pend = tk.exc], "L169", "xc_start")
              ELSE Call([tk EXCEPT !.pend = tk.exc], "L172", "xc_start")]
    /\ UNCHANGED <<playwright, browser, connected, contexts, extractors>>
    /\ Same

\* execute, lines 138-141, 170 and 174: the raise statements, and an
\* exception of close_context leaving an except clause.
LfRaise(t) ==
    LET tk == task[t]
        tkf == [tk EXCEPT !.hist = Append(@, "Failed"), !.pend = "none"] IN
    /\ tk.pc \in {"lf_raise_rejected", "lf_raise_nav", "lf_raise_login", "lf_propagate"}
    /\ task' = [task EXCEPT ![t] =
         CASE tk.pc = "lf_raise_rejected" ->
                  DoRaise([tkf EXCEPT !.msg = tk.error_text], "LoginError")
           [] tk.pc = "lf_raise_nav" ->
                  DoRaise([tkf EXCEPT !.msg = "timeout"], "NavigationError")
           [] tk.pc = "lf_raise_login" ->
                  DoRaise([tkf EXCEPT !.msg = "wrapped"], "LoginError")
           [] tk.pc = "lf_propagate" -> DoRaise(tkf, tk.exc)]
    /\ UNCHANGED <<playwright, browser, connected, contexts, extractors>>
    /\ Same

LoginStep(t) ==
    \/ StartLogin(t) \/ LfMain(t) \/ LfGetError(t) \/ HcExtract(t) \/ HcSelect(t)
    \/ LfWaitDash(t) \/ LfExcept(t) \/ LfRaise(t)

\* -------------------------------------------------- ExtractorRegistry
\* profile.py:37 and tasks.py:43 register the two built-in extractors at import.
BuiltinExtractors == <<"profile", "tasks">>
CustomExtractors == {"custom"}
InSeq(x, seq) == \E i \in 1..Len(seq) : seq[i] = x

\* ExtractorRegistry.register: a further extractor class is registered.
Register(t) ==
    /\ task[t].pc = "idle"
    /\ \E n \in CustomExtractors :
        /\ ~InSeq(n, extractors)
        /\ extractors' = Append(extractors, n)
    /\ UNCHANGED <<playwright, browser, connected, contexts, task>>
    /\ Same

\* ExtractorRegistry.list_extractors
list_extractors == extractors

\* The names ExtractorRegistry.get is asked for.
ExtractorNames == {"profile", "tasks", "custom", "bogus"}

\* ExtractorRegistry.get looking the name up among the built-in extractors
\* only.
registry_get_BuiltinsOnly(tk, name) ==
    IF InSeq(name, BuiltinExtractors)
    THEN DoReturn([tk EXCEPT !.name = name, !.res = name])
    ELSE DoRaise([tk EXCEPT !.name = name, !.available = list_extractors],
                 "ValueError")

\* ExtractorRegistry.get, base.py:100-116: an instance of the registered
\* class, or ValueError naming the requested name and the registered names.
registry_get(tk, name) ==
    IF InSeq(name, extractors)
    THEN DoReturn([tk EXCEPT !.name = name, !.res = name])
    ELSE DoRaise([tk EXCEPT !.name = name, !.available = list_extractors],
                 "ValueError")

\* A caller asks the registry for an extractor.
RegistryGet(t) ==
    /\ task[t].pc = "idle"
    /\ \E n \in ExtractorNames :
        task' = [task EXCEPT ![t] =
            registry_get([IdleTask EXCEPT !.op = "registry_get", !.stack = <<"top">>], n)]
    /\ UNCHANGED <<playwright, browser, connected, contexts, extractors>>
    /\ Same

\* Outcome of ExtractorRegistry.get(name) followed by extract(page, base_url).
\* The built-in extractors catch every exception and return a fallback
\* payload; a registered custom extractor may raise.
ExtractorOutcomes(name) ==
    IF ~InSeq(name, extractors) THEN {"unknown"}
    ELSE IF InSeq(name, BuiltinExtractors) THEN {"ok"}
    ELSE {"ok", "ValueError", "Exception"}

\* The page.goto calls one run of an extractor issues.  ProfileExtractor
\* (profile.py:65-78) waits, navigates to the profile surface and, when that
\* navigation raises, navigates to it again with a weaker wait condition;
\* TasksExtractor (tasks.py:70-73) navigates once to the active-courses surface.
ExtractorNavs(name) ==
    CASE name = "profile" /\ InSeq(name, extractors) ->
             {<<>>, <<"profile">>, <<"profile", "profile">>}
      [] name = "tasks" /\ InSeq(name, extractors) -> {<<"tasks">>}
      [] OTHER -> {<<>>}

\* ------------------------------------------------- ExtractOrchestrator
SCREENSHOTS_ENABLED == TRUE

\* The fields ExtractResponse has for extractor payloads (lines 206-208).
ResponseFields == {"profile", "tasks", "specialties"}

IncludeInputs ==
    { <<>>, <<"profile", "tasks">>, <<"custom", "profile">>, <<"bogus", "tasks">>,
      <<"tasks", "custom">> }

\* The requests made of extract: every selector combination with the default
\* include list, and every include list with two selector combinations.
ExtractInputs ==
    {<<sel, <<>>>> : sel \in SelectorInputs}
      \cup {<<sel, inc>> : sel \in {<<<<>>, <<>>, <<>>>>, <<<<>>, S_aventureros, S_Sion>>},
                           inc \in IncludeInputs}

\* extract whose default include list is the two built-in extractors rather
\* than the registry's list at call time.
StartExtract_BuiltinsOnly(t) ==
    /\ task[t].pc = "idle"
    /\ \E req \in ExtractInputs :
       \E tk \in LoginEntry(
                   [IdleTask EXCEPT !.op = "extract", !.stack = <<"top">>,
                        !.req_include = req[2],
                        !.include = IF req[2] = <<>> THEN BuiltinExtractors ELSE req[2]],
                   "O143", req[1]) :
        task' = [task EXCEPT ![t] = tk]
    /\ UNCHANGED <<playwright, browser, connected, contexts, extractors>>
    /\ Same

\* extract, lines 128-149: default the include list, then LoginFlow.execute.
StartExtract(t) ==
    /\ task[t].pc = "idle"
    /\ \E req \in ExtractInputs :
       \E tk \in LoginEntry(
                   [IdleTask EXCEPT !.op = "extract", !.stack = <<"top">>,
                        !.req_include = req[2],
                        !.include = IF req[2] = <<>> THEN list_extractors ELSE req[2]],
                   "O143", req[1]) :
        task' = [task EXCEPT ![t] = tk]
    /\ UNCHANGED <<playwright, browser, connected, contexts, extractors>>
    /\ Same

\* extract, lines 180-185: after the loop, the screenshot or the response.
Success(tk) ==
    [tk EXCEPT !.pc = "ox_finally", !.res = "success", !.res_sid = tk.session_id,
               !.res_data = {n \in ResponseFields : InSeq(n, tk.extracted_data)},
               !.res_errors = tk.errors]

\* extract, lines 214-221: the except clause builds the failure response.
Failure(tk, e) ==
    [tk EXCEPT !.pc = "ox_finally", !.res = "failure", !.res_sid = tk.session_id,
               !.res_data = {},
               !.res_errors = <<[src |-> "-", kind |-> e, named |-> FALSE]>>]

AfterExtractors(tk) ==
    IF SCREENSHOTS_ENABLED THEN [tk EXCEPT !.pc = "ox_shot"] ELSE Success(tk)

\* extract, lines 151-156.  Of execute, extract keeps the LoginResult only
\* (session_id, page, clubs, selected_club).
OxAfterLogin(t) ==
    LET tk == task[t]
        tk1 == [tk EXCEPT !.session_id = tk.sid, !.idx = 1, !.pc = "ox_loop",
                          !.url = "none", !.clicked = 0, !.hist = <<>>] IN
    /\ tk.pc = "ox_after_login"
    /\ task' = [task EXCEPT ![t] =
           IF tk.include = <<>> THEN AfterExtractors(tk1) ELSE tk1]
    /\ UNCHANGED <<playwright, browser, connected, contexts, extractors>>
    /\ Same

\* extract, lines 158-178: one iteration of the extractor loop.
OxLoop(t) ==
    LET tk == task[t]
        name == tk.include[tk.idx] IN
    /\ tk.pc = "ox_loop"
    /\ \E o \in ExtractorOutcomes(name), nv \in ExtractorNavs(name) :
        LET tk1 == [tk EXCEPT !.attempted = Append(@, name), !.idx = @ + 1,
                              !.navs = @ \o nv]
            tk2 == CASE o = "ok" ->
                         [tk1 EXCEPT !.extracted_data =
                              IF InSeq(name, @) THEN @ ELSE Append(@, name)]
                     [] o = "unknown" ->
                         [tk1 EXCEPT !.errors = Append(@,
                              [src |-> name, kind |-> "ValueError", named |-> TRUE])]
                     [] o = "ValueError" ->
                         [tk1 EXCEPT !.errors = Append(@,
                              [src |-> name, kind |-> "ValueError", named |-> FALSE])]
                     [] o = "Exception" ->
                         [tk1 EXCEPT !.errors = Append(@,
                              [src |-> name, kind |-> "Exception", named |-> TRUE])]
        IN task' = [task EXCEPT ![t] =
               IF tk.idx = Len(tk.include) THEN AfterExtractors(tk2) ELSE tk2]
    /\ UNCHANGED <<playwright, browser, connected, contexts, extractors>>
    /\ Same

\* extract, line 182 and _take_screenshot: a failure lands in the except clause.
OxShot(t) ==
    LET tk == task[t] IN
    /\ tk.pc = "ox_shot"
    /\ \E o \in PageOutcomes(tk) :
        task' = [task EXCEPT ![t] =
            IF o = "ok" THEN Success([tk EXCEPT !.screenshot = TRUE])
            ELSE Failure(tk, o)]
    /\ UNCHANGED <<playwright, browser, connected, contexts, extractors>>
    /\ Same

\* extract, lines 214-221, for an exception raised by LoginFlow.execute.
OxExcept(t) ==
    LET tk == task[t] IN
    /\ tk.pc = "ox_except"
    /\ task' = [task EXCEPT ![t] = Failure(tk, tk.exc)]
    /\ UNCHANGED <<playwright, browser, connected, contexts, extractors>>
    /\ Same

\* extract that, after the finally clause has closed the context of a failed
\* run, takes a diagnostic screenshot of the borrowed page.
OxFinally_ShotAfterClose(t) ==
    LET tk == task[t] IN
    /\ tk.pc \in {"ox_finally", "ox_return", "ox_propagate"}
    /\ task' = [task EXCEPT ![t] =
         CASE tk.pc = "ox_finally" ->
                  IF tk.session_id # NoSid THEN Call(tk, "O226", "xc_start")
                  ELSE DoReturn(tk)
           [] tk.pc = "ox_return" ->
                  IF tk.res = "failure" /\ tk.session_id # NoSid
                  THEN [tk EXCEPT !.pc = "ox_shot", !.session_id = NoSid]
                  ELSE DoReturn(tk)
           [] tk.pc = "ox_propagate" ->
                  DoRaise([tk EXCEPT !.res = "none", !.res_sid = NoSid,
                                     !.res_data = {}, !.res_errors = <<>>], tk.exc)]
    /\ UNCHANGED <<playwright, browser, connected, contexts, extractors>>
    /\ Same

\* extract, lines 223-226: the finally clause; then the return statement
\* takes effect, unless close_context raised.
OxFinally(t) ==
    LET tk == task[t] IN
    /\ tk.pc \in {"ox_finally", "ox_return", "ox_propagate"}
    /\ task' = [task EXCEPT ![t] =
         CASE tk.pc = "ox_finally" ->
                  IF tk.session_id # NoSid THEN Call(tk, "O226", "xc_start")
                  ELSE DoReturn(tk)
           [] tk.pc = "ox_return" -> DoReturn(tk)
           [] tk.pc = "ox_propagate" ->
                  DoRaise([tk EXCEPT !.res = "none", !.res_sid = NoSid,
                                     !.res_data = {}, !.res_errors = <<>>], tk.exc)]
    /\ UNCHANGED <<playwright, browser, connected, contexts, extractors>>
    /\ Same

ExtractStep(t) ==
    \/ Register(t) \/ RegistryGet(t) \/ StartExtract(t) \/ OxAfterLogin(t) \/ OxLoop(t) \/ OxShot(t)
    \/ OxExcept(t) \/ OxFinally(t)

\* ------------------------------------------------- ClubVirtualService
\* The selector combinations given to ClubVirtualService.login: none, an
\* identifier, a pair that matches and a pair that matches nothing.
CvSelectorInputs ==
    { <<<<>>, <<>>, <<>>>>,
      <<<<1>>, <<>>, <<>>>>,
      <<<<>>, S_aventureros, S_peniel>>,
      <<<<>>, S_castores, S_Sion>> }

\* login, lines 244-249: a fresh session id, then create_context.
StartCvLogin(t) ==
    /\ task[t].pc = "idle"
    /\ \E sel \in CvSelectorInputs, sv \in BOOLEAN, s \in FreshSids :
        task' = [task EXCEPT ![t] =
            Call([IdleTask EXCEPT !.op = "cv_login", !.stack = <<"top">>, !.sid = s,
                                  !.club_id = sel[1], !.club_type = sel[2],
                                  !.club_name = sel[3], !.save = sv],
                 "V249", "cc_start")]
    /\ UNCHANGED <<playwright, browser, connected, contexts, extractors>>
    /\ Same

\* An awaited operation of login raised: control enters the except clauses.
CvFailed(tk, e) ==
    [tk EXCEPT !.pc = "cv_except", !.exc = e, !.step = 0, !.url = "none",
               !.clubs = <<>>, !.selected_club = 0]

\* login, lines 250-283: one awaited page operation completes; after the
\* last one the page's route decides (275, and 380-381 of
\* _handle_club_selection).
CvMain(t) ==
    LET tk == task[t]
        i == tk.step + 1 IN
    /\ tk.pc = "cv_main"
    /\ \E o \in PageOutcomes(tk) :
        LET tk0 == Navigated(tk, i) IN
        IF o # "ok"
        THEN task' = [task EXCEPT ![t] = CvFailed(tk0, o)]
        ELSE IF i < Len(LoginSteps)
             THEN task' = [task EXCEPT ![t] = [tk0 EXCEPT !.step = i]]
             ELSE \E u \in Urls :
                 task' = [task EXCEPT ![t] =
                     [tk0 EXCEPT !.url = u, !.step = 0,
                                !.pc = CASE u = "login_error" -> "cv_get_error"
                                         [] u = "select_club" -> "cv_extract"
                                         [] OTHER -> "cv_tail"]]
    /\ UNCHANGED <<playwright, browser, connected, contexts, extractors>>
    /\ Same

\* login, lines 276-280: read the error text and raise LoginError inside
\* the try.
CvGetError(t) ==
    LET tk == task[t] IN
    /\ tk.pc = "cv_get_error"
    /\ \E elem \in (IF "ok" \in PageOutcomes(tk)
                    THEN {"text", "empty", "absent", "raises"} ELSE {"raises"}) :
        task' = [task EXCEPT ![t] =
            [tk EXCEPT !.error_text = get_error_message(elem),
                       !.msg = get_error_message(elem),
                       !.pc = "cv_except", !.exc = "LoginError"]]
    /\ UNCHANGED <<playwright, browser, connected, contexts, extractors>>
    /\ Same

\* Where the decision of _handle_club_selection continues inside login.
CvPc(pc) ==
    CASE pc = "hc_select" -> "cv_select"
      [] pc = "lf_wait_dash" -> "cv_tail"
      [] pc = "lf_except" -> "cv_except"

\* ClubVirtualService._handle_club_selection, lines 384-414: the same
\* decision as LoginFlow's.
CvExtract(t) ==
    LET tk == task[t] IN
    /\ tk.pc = "cv_extract"
    /\ \E clubs \in (IF "ok" \in PageOutcomes(tk) THEN PageClubLists ELSE {<<>>}) :
        task' = [task EXCEPT ![t] =
            [handle_club_selection(tk, clubs) EXCEPT !.pc = CvPc(@)]]
    /\ UNCHANGED <<playwright, browser, connected, contexts, extractors>>
    /\ Same

\* ClubVirtualService._select_club: failures are logged and swallowed.
CvSelect(t) ==
    LET tk == task[t] IN
    /\ tk.pc = "cv_select"
    /\ \E n \in (IF "ok" \in PageOutcomes(tk) THEN 0..2 ELSE {0}) :
       \E u \in (IF n = 2 THEN {"select_club", "dashboard"} ELSE {tk.url}) :
        task' = [task EXCEPT ![t] =
            [tk EXCEPT !.clicked = n, !.url = u, !.pc = "cv_tail"]]
    /\ UNCHANGED <<playwright, browser, connected, contexts, extractors>>
    /\ Same

\* The awaits of lines 288-299 that can raise (_extract_user_profile at 291
\* catches every exception).
CvTailSteps(save) ==
    <<"wait">> \o (IF SCREENSHOTS_ENABLED THEN <<"screenshot">> ELSE <<>>)
               \o (IF save THEN <<"save_session">> ELSE <<>>)

\* BrowserManager.save_session, browser.py:318-328: BrowserError for a
\* session that is not in the map, else the driver's storage_state.
SaveSessionOutcomes(tk) ==
    IF contexts[tk.sid] = NoCtx THEN {"BrowserError"}
    ELSE IF ctxState[contexts[tk.sid]] = "live" THEN DriverOutcomes
    ELSE {"DriverError"}

\* login, lines 288-321: the last wait, the screenshot, save_session, then
\* the LoginResponse.
CvTail(t) ==
    LET tk == task[t]
        steps == CvTailSteps(tk.save)
        i == tk.step + 1 IN
    /\ tk.pc = "cv_tail"
    /\ \E o \in (IF steps[i] = "save_session" THEN SaveSessionOutcomes(tk)
                 ELSE PageOutcomes(tk)) :
        task' = [task EXCEPT ![t] =
            IF o # "ok" THEN CvFailed(tk, o)
            ELSE IF i < Len(steps) THEN [tk EXCEPT !.step = i]
            ELSE DoReturn([tk EXCEPT !.step = 0, !.res = "success", !.res_sid = tk.sid,
                                     !.screenshot = SCREENSHOTS_ENABLED])]
    /\ UNCHANGED <<playwright, browser, connected, contexts, extractors>>
    /\ Same

\* login, lines 323-330: every except clause closes the context first.
CvExcept(t) ==
    LET tk == task[t]
        tk1 == [tk EXCEPT !.pend = tk.exc] IN
    /\ tk.pc = "cv_except"
    /\ task' = [task EXCEPT ![t] =
         CASE tk.exc = "LoginError" -> Call(tk1, "V324", "xc_start")
           [] tk.exc = "Timeout" -> Call(tk1, "V327", "xc_start")
           [] OTHER -> Call(tk1, "V330", "xc_start")]
    /\ UNCHANGED <<playwright, browser, connected, contexts, extractors>>
    /\ Same

\* login, lines 325, 328 and 332: the raise statements, and an exception of
\* close_context leaving an except clause.
CvRaise(t) ==
    LET tk == task[t]
        tkf == [tk EXCEPT !.pend = "none"] IN
    /\ tk.pc \in {"cv_reraise", "cv_raise_nav", "cv_raise_login", "cv_propagate"}
    /\ task' = [task EXCEPT ![t] =
         CASE tk.pc = "cv_reraise" -> DoRaise(tkf, "LoginError")
           [] tk.pc = "cv_raise_nav" ->
                  DoRaise([tkf EXCEPT !.msg = "timeout"], "NavigationError")
           [] tk.pc = "cv_raise_login" ->
                  DoRaise([tkf EXCEPT !.msg = "wrapped"], "LoginError")
           [] tk.pc = "cv_propagate" -> DoRaise(tkf, tk.exc)]
    /\ UNCHANGED <<playwright, browser, connected, contexts, extractors>>
    /\ Same

\* get_tasks_and_reports, lines 1012-1014: get_context (browser.py:255-268)
\* awaits nothing; an unknown session raises ElementNotFoundError.
StartGetTasks(t) ==
    /\ task[t].pc = "idle"
    /\ \E s \in Sids :
        LET tk == [IdleTask EXCEPT !.op = "get_tasks", !.sid = s, !.stack = <<"top">>,
                                   !.ctx = contexts[s]] IN
        task' = [task EXCEPT ![t] =
            IF contexts[s] = NoCtx THEN DoRaise(tk, "ElementNotFoundError")
            ELSE [tk EXCEPT !.pc = "gt_page"]]
    /\ UNCHANGED <<playwright, browser, connected, contexts, extractors>>
    /\ Same

\* get_tasks_and_reports, line 1016, outside the try: the context's first
\* page, or a new page when it has none; a failure of new_page propagates.
GtPage(t) ==
    LET tk == task[t] IN
    /\ tk.pc = "gt_page"
    /\ \E o \in {"has_page"} \cup PageOutcomes(tk) :
        task' = [task EXCEPT ![t] =
            IF o \in {"has_page", "ok"} THEN [tk EXCEPT !.pc = "gt_extract"]
            ELSE DoRaise(tk, o)]
    /\ UNCHANGED <<playwright, browser, connected, contexts, extractors>>
    /\ Same

\* get_tasks_and_reports, lines 1022-1040: TasksExtractor.extract catches
\* every exception and returns a fallback payload.
GtExtract(t) ==
    LET tk == task[t] IN
    /\ tk.pc = "gt_extract"
    /\ \E nv \in ExtractorNavs("tasks") :
        LET tk1 == [tk EXCEPT !.navs = @ \o nv] IN
        task' = [task EXCEPT ![t] =
           IF SCREENSHOTS_ENABLED THEN [tk1 EXCEPT !.pc = "gt_shot"]
           ELSE DoReturn([tk1 EXCEPT !.res = "success", !.res_sid = tk.sid])]
    /\ UNCHANGED <<playwright, browser, connected, contexts, extractors>>
    /\ Same

\* get_tasks_and_reports, lines 1040-1073: the screenshot, then the response
\* or one of the two except clauses.
GtShot(t) ==
    LET tk == task[t] IN
    /\ tk.pc = "gt_shot"
    /\ \E o \in PageOutcomes(tk) :
        task' = [task EXCEPT ![t] =
            CASE o = "ok" -> DoReturn([tk EXCEPT !.res = "success", !.res_sid = tk.sid,
                                                 !.screenshot = TRUE])
              [] o = "Timeout" -> DoRaise([tk EXCEPT !.msg = "timeout"], "NavigationError")
              [] OTHER -> DoReturn([tk EXCEPT !.res = "failure", !.res_sid = tk.sid])]
    /\ UNCHANGED <<playwright, browser, connected, contexts, extractors>>
    /\ Same

\* logout, lines 1252-1253 and 1264: get_context; for an unknown session
\* nothing is awaited and logout returns.
StartLogout(t) ==
    /\ task[t].pc = "idle"
    /\ \E s \in Sids :
        LET tk == [IdleTask EXCEPT !.op = "logout", !.sid = s, !.stack = <<"top">>,
                                   !.ctx = contexts[s]] IN
        task' = [task EXCEPT ![t] =
            IF contexts[s] = NoCtx THEN DoReturn(tk)
            ELSE [tk EXCEPT !.pc = "lo_click"]]
    /\ UNCHANGED <<playwright, browser, connected, contexts, extractors>>
    /\ Same

\* logout, lines 1254-1262: the click and the wait on the context's first
\* page (skipped when it has none); a failure is logged and swallowed, and
\* the finally clause calls close_context.
LoClick(t) ==
    LET tk == task[t] IN
    /\ tk.pc = "lo_click"
    /\ \E o \in {"no_page"} \cup PageOutcomes(tk) :
        task' = [task EXCEPT ![t] =
            Call([tk EXCEPT !.clicked = IF o = "ok" THEN 1 ELSE 0], "V1262", "xc_start")]
    /\ UNCHANGED <<playwright, browser, connected, contexts, extractors>>
    /\ Same

\* logout, lines 1262-1264: close_context returned, or its exception leaves
\* the finally clause.
LoFinish(t) ==
    LET tk == task[t] IN
    /\ tk.pc \in {"lo_return", "lo_propagate"}
    /\ task' = [task EXCEPT ![t] =
         IF tk.pc = "lo_return" THEN DoReturn(tk) ELSE DoRaise(tk, tk.exc)]
    /\ UNCHANGED <<playwright, browser, connected, contexts, extractors>>
    /\ Same

ServiceStep(t) ==
    \/ StartCvLogin(t) \/ CvMain(t) \/ CvGetError(t) \/ CvExtract(t) \/ CvSelect(t)
    \/ CvTail(t) \/ CvExcept(t) \/ CvRaise(t)
    \/ StartGetTasks(t) \/ GtPage(t) \/ GtExtract(t) \/ GtShot(t)
    \/ StartLogout(t) \/ LoClick(t) \/ LoFinish(t)

\* ------------------------------------------------------ top-level callers
StartCreate(t) ==
    /\ task[t].pc = "idle"
    /\ \E s \in Sids :
        task' = [task EXCEPT ![t] =
            Call([IdleTask EXCEPT !.op = "create_context", !.sid = s], "top", "cc_start")]
    /\ UNCHANGED <<playwright, browser, connected, contexts, extractors>>
    /\ Same

StartCloseContext(t) ==
    /\ task[t].pc = "idle"
    /\ \E s \in Sids :
        task' = [task EXCEPT ![t] =
            Call([IdleTask EXCEPT !.op = "close_context", !.sid = s], "top", "xc_start")]
    /\ UNCHANGED <<playwright, browser, connected, contexts, extractors>>
    /\ Same

StartClose(t) ==
    /\ task[t].pc = "idle"
    /\ task' = [task EXCEPT ![t] =
            Call([IdleTask EXCEPT !.op = "close"], "top", "td_start")]
    /\ UNCHANGED <<playwright, browser, connected, contexts, extractors>>
    /\ Same

\* get_context that creates and stores a context for an identifier the map
\* does not hold.
GetContext_CreateOnMiss(t) ==
    /\ task[t].pc = "idle"
    /\ \E s \in Sids :
        LET tk == [IdleTask EXCEPT !.op = "get_context", !.sid = s, !.stack = <<"top">>] IN
        IF contexts[s] = NoCtx /\ FreeCtxs # {}
        THEN /\ contexts' = [contexts EXCEPT ![s] = NewCtx]
             /\ task' = [task EXCEPT ![t] = DoReturn([tk EXCEPT !.ctx = NewCtx])]
             /\ Settle([ctxState EXCEPT ![NewCtx] = "live"], leaked)
        ELSE /\ task' = [task EXCEPT ![t] = DoReturn([tk EXCEPT !.ctx = contexts[s]])]
             /\ UNCHANGED contexts
             /\ Same
    /\ UNCHANGED <<playwright, browser, connected, extractors>>

\* get_context, browser.py:255-268: the dictionary lookup; nothing is awaited.
GetContext(t) ==
    /\ task[t].pc = "idle"
    /\ \E s \in Sids :
        task' = [task EXCEPT ![t] =
            DoReturn([IdleTask EXCEPT !.op = "get_context", !.sid = s,
                                      !.stack = <<"top">>, !.ctx = contexts[s]])]
    /\ UNCHANGED <<playwright, browser, connected, contexts, extractors>>
    /\ Same

\* save_session's path argument: absent, or a path the caller chose.
PathInputs == {"none", "/tmp/state.json"}

\* browser.py:327: the default location is derived from the identifier.
DefaultPath(s) ==
    CASE s = "s1" -> "sessions/s1.json"
      [] s = "s2" -> "sessions/s2.json"

\* save_session without the check of lines 318-320.
StartSaveSession_NoLookup(t) ==
    /\ task[t].pc = "idle"
    /\ \E s \in Sids, p \in PathInputs :
        task' = [task EXCEPT ![t] =
            [IdleTask EXCEPT !.op = "save_session", !.sid = s, !.path = p,
                             !.stack = <<"top">>, !.ctx = contexts[s],
                             !.pc = "ss_saving"]]
    /\ UNCHANGED <<playwright, browser, connected, contexts, extractors>>
    /\ Same

\* save_session, lines 318-327: the lookup; BrowserError for an identifier
\* that is not in the map, else on to the await of storage_state.
StartSaveSession(t) ==
    /\ task[t].pc = "idle"
    /\ \E s \in Sids, p \in PathInputs :
        LET tk == [IdleTask EXCEPT !.op = "save_session", !.sid = s, !.path = p,
                                   !.stack = <<"top">>, !.ctx = contexts[s]] IN
        task' = [task EXCEPT ![t] =
            IF contexts[s] = NoCtx THEN DoRaise(tk, "BrowserError")
            ELSE [tk EXCEPT !.pc = "ss_saving"]]
    /\ UNCHANGED <<playwright, browser, connected, contexts, extractors>>
    /\ Same

\* save_session, lines 328-331: storage_state completes; the location is
\* returned, or the driver's error propagates.
SsSaved(t) ==
    LET tk == task[t] IN
    /\ tk.pc = "ss_saving"
    /\ \E o \in PageOutcomes(tk) :
        task' = [task EXCEPT ![t] =
            IF o = "ok"
            THEN DoReturn([tk EXCEPT !.location =
                     IF tk.path # "none" THEN tk.path ELSE DefaultPath(tk.sid)])
            ELSE DoRaise(tk, o)]
    /\ UNCHANGED <<playwright, browser, connected, contexts, extractors>>
    /\ Same

\* routes.py:163-182, GET /health/ready: 503 when is_ready is false, else 200.
Readiness(t) ==
    /\ task[t].pc = "idle"
    /\ task' = [task EXCEPT ![t] =
           LET tk == [IdleTask EXCEPT !.op = "readiness", !.stack = <<"top">>] IN
           IF ~is_ready THEN DoRaise([tk EXCEPT !.res = "503"], "HTTPException")
           ELSE DoReturn([tk EXCEPT !.res = "200"])]
    /\ UNCHANGED <<playwright, browser, connected, contexts, extractors>>
    /\ Same

\* The caller takes the result; the task is free for the next request.
Finish(t) ==
    /\ task[t].pc = "done"
    /\ task' = [task EXCEPT ![t] = IdleTask]
    /\ UNCHANGED <<playwright, browser, connected, contexts, extractors>>
    /\ Same

\* ------------------------------------------------------------------ spec
Init ==
    /\ playwright = FALSE
    /\ browser = "none"
    /\ connected = FALSE
    /\ contexts = [s \in Sids |-> NoCtx]
    /\ ctxState = [c \in Ctxs |-> "free"]
    /\ leaked = 0
    /\ task = [t \in Tasks |-> IdleTask]
    /\ extractors = BuiltinExtractors

\* create_context and close_context, called by any request.
SessionStep(t) ==
    \/ StartCreate(t) \/ CcStart(t) \/ CcClosed(t) \/ CcCreated(t)
    \/ StartCloseContext(t) \/ XcStart(t) \/ XcClosed(t)
    \/ Finish(t)

\* get_context and save_session, called by any request.
LookupStep(t) ==
    \/ GetContext(t) \/ StartSaveSession(t) \/ SsSaved(t)

\* initialize and close, called by the application's lifespan handler only
\* (main.py:32 and main.py:38).
LifespanStep(t) ==
    \/ Initialize(t)
    \/ StartClose(t) \/ TdStart(t) \/ TdClosed(t) \/ TdBrowser(t) \/ TdStop(t)

MgrStep(t) == SessionStep(t) \/ LifespanStep(t)

Lifespan == "t1"

\* Overlapping BrowserManager calls: the tasks interleave at every await.
NextConc ==
    \/ \E t \in Tasks : SessionStep(t)
    \/ LifespanStep(Lifespan)
    \/ BrowserCrash

SpecConc == Init /\ [][NextConc]_vars

\* Calls run one at a time: a single caller issues one call after the other.
Caller == "t1"

Next ==
    \/ MgrStep(Caller)
    \/ LookupStep(Caller)
    \/ Readiness(Caller)
    \/ LoginStep(Caller)
    \/ ExtractStep(Caller)
    \/ ServiceStep(Caller)
    \/ BrowserCrash

Spec == Init /\ [][Next]_vars

\* ------------------------------------------------- independent sessions
\* A request holding a session's context opens a page in it
\* (BrowserContext.new_page, as at login_flow.py:110 and club_virtual.py:1016).
StartNewPage(t) ==
    /\ task[t].pc = "idle"
    /\ \E s \in Sids :
        /\ contexts[s] # NoCtx
        /\ task' = [task EXCEPT ![t] =
               [IdleTask EXCEPT !.op = "new_page", !.sid = s, !.stack = <<"top">>,
                                !.ctx = contexts[s], !.pc = "np_creating"]]
    /\ UNCHANGED <<playwright, browser, connected, contexts, extractors>>
    /\ Same

NpCreated(t) ==
    LET tk == task[t] IN
    /\ tk.pc = "np_creating"
    /\ \E o \in PageOutcomes(tk) :
        task' = [task EXCEPT ![t] = IF o = "ok" THEN DoReturn(tk) ELSE DoRaise(tk, o)]
    /\ UNCHANGED <<playwright, browser, connected, contexts, extractors>>
    /\ Same

\* Each request works on the session of its own identifier.
OwnSid(t) == IF t = "t1" THEN "s1" ELSE "s2"

Own(t) == task'[t].sid = OwnSid(t)

OwnSessionStep(t) ==
    \/ StartCreate(t) /\ Own(t)
    \/ StartCloseContext(t) /\ Own(t)
    \/ StartSaveSession(t) /\ Own(t)
    \/ StartNewPage(t) /\ Own(t)
    \/ CcStart(t) \/ CcClosed(t) \/ CcCreated(t) \/ XcStart(t) \/ XcClosed(t)
    \/ SsSaved(t) \/ NpCreated(t) \/ Finish(t)

\* Overlapping calls on distinct identifiers, in a browser that the lifespan
\* handler has started and that may crash.
NextIndep ==
    \/ \E t \in Tasks : OwnSessionStep(t)
    \/ Initialize(Lifespan)
    \/ BrowserCrash

SpecIndep == Init /\ [][NextIndep]_vars

\* ------------------------------------------ _find_club_by_type_and_name
\* The function applied on its own to option lists and type+name pairs.
MaxFindLen == 3
FindClubs == 1..4
FindLists ==
    UNION {{l \in [1..n -> FindClubs] : \A i, j \in 1..n : l[i] = l[j] => i = j}
              : n \in 0..MaxFindLen}
S_Aventureros == <<"A", "v", "e", "n", "t", "u", "r", "e", "r", "o", "s">>
FindTypes == {S_aventureros, S_Aventureros, S_castores, S_peniel}
FindNames == {S_peniel, S_Sion, S_aventureros}

FindClub(t) ==
    /\ task[t].pc = "idle"
    /\ \E l \in FindLists, ty \in FindTypes, nm \in FindNames :
        task' = [task EXCEPT ![t] =
            [IdleTask EXCEPT !.op = "find_club", !.pc = "done", !.outcome = "returned",
                             !.clubs = l, !.club_type = ty, !.club_name = nm,
                             !.selected_club = find_club_by_type_and_name(l, ty, nm)]]
    /\ UNCHANGED <<playwright, browser, connected, contexts, extractors>>
    /\ Same

NextFind == FindClub(Caller) \/ Finish(Caller)

SpecFind == Init /\ [][NextFind]_vars

\* ================================================================ claims
InMgrCall(t) ==
    task[t].pc \in {"cc_start", "cc_closing", "cc_creating", "xc_start", "xc_closing",
                    "td_start", "td_closing", "td_browser", "td_stop"}
Mapped == {contexts[s] : s \in {x \in Sids : contexts[x] # NoCtx}}
LiveCtxs == {c \in Ctxs : ctxState[c] = "live"}
Done(t, op) == task[t].pc = "done" /\ task[t].op = op
Last(seq) == seq[Len(seq)]

\* C1: with calls running one at a time, between BrowserManager calls every
\* live context is the one the session map holds under its identifier (so an
\* identifier has at most one live context, and none is live unreferenced).
C1_Inv ==
    (\A t \in Tasks : ~InMgrCall(t)) =>
        /\ leaked = 0
        /\ LiveCtxs \subseteq Mapped
        /\ \A s1, s2 \in Sids :
              (contexts[s1] # NoCtx /\ contexts[s1] = contexts[s2]) => s1 = s2

\* C1: when create_context stores a new context under an identifier that
\* already has one, that previous context has been closed.
C1_Replace ==
    \A t \in Tasks :
        (task[t].pc = "cc_creating" /\ task'[t] # task[t]
            /\ contexts'[task[t].sid] \notin {NoCtx, contexts[task[t].sid]}
            /\ contexts[task[t].sid] # NoCtx)
        => ctxState[contexts[task[t].sid]] # "live"

C2_ClosedBeforeRaise ==
    \A t \in Tasks :
        (Done(t, "login") /\ task[t].outcome = "raised") =>
            /\ contexts[task[t].sid] = NoCtx
            /\ task[t].ctx # NoCtx => ctxState[task[t].ctx] # "live"

\* C3 (as claimed): when ExtractOrchestrator.extract returns, no context
\* created by the call is left in the session map.
C3_ReleasedOnReturn ==
    \A t \in Tasks :
        (Done(t, "extract") /\ task[t].outcome = "returned") =>
            contexts[task[t].sid] = NoCtx

\* C4 (as claimed): extract never raises; it returns a result, and when the
\* login step failed the result has success false, no session id and a
\* non-empty error list.
C4_NeverRaises ==
    \A t \in Tasks :
        Done(t, "extract") =>
            /\ task[t].outcome = "returned"
            /\ task[t].res # "none"
            /\ task[t].session_id = NoSid =>
                  /\ task[t].res = "failure" /\ task[t].res_sid = NoSid
                  /\ task[t].res_errors # <<>>

\* C5 (as claimed): after a successful login every requested extractor is
\* attempted once, in order; the result has success true, data for exactly
\* the extractors that succeeded and one error per extractor that failed.
Succeeded(tk) == {tk.include[i] : i \in {j \in 1..Len(tk.include) :
                      InSeq(tk.include[j], tk.extracted_data)}}
C5_PartialFailure ==
    \A t \in Tasks :
        (Done(t, "extract") /\ task[t].session_id # NoSid) =>
            /\ task[t].outcome = "returned"
            /\ task[t].res = "success"
            /\ task[t].attempted = task[t].include
            /\ task[t].res_data = Succeeded(task[t])
            /\ Len(task[t].res_errors) = Len(task[t].include) - Cardinality(Succeeded(task[t]))

\* C6 (as claimed): close_context never raises and leaves the identifier
\* absent from the session map.
C6_NeverRaises ==
    \A t \in Tasks :
        Done(t, "close_context") =>
            task[t].outcome = "returned" /\ contexts[task[t].sid] = NoCtx

C8_Overwrite ==
    \A t \in Tasks :
        (task[t].pc = "cc_creating" /\ task'[t] # task[t]
            /\ contexts'[task[t].sid] \notin {NoCtx, contexts[task[t].sid]}
            /\ contexts[task[t].sid] # NoCtx
            /\ ctxState[contexts[task[t].sid]] = "live"
            /\ connected')
        => /\ \A s \in Sids : contexts'[s] # contexts[task[t].sid]
           /\ \/ ctxState'[contexts[task[t].sid]] = "live"
              \/ leaked' = leaked + 1

\* C8: overlapping create_context calls for one identifier leak a context.
C8_LeakOnOverlap == [][C8_Overwrite]_vars

\* C8 witness: two create_context calls for the same identifier have both
\* returned and a context is live that the session map does not hold.
C8_Witness ==
    /\ \E c \in LiveCtxs : c \notin Mapped
    /\ \A t \in Tasks : Done(t, "create_context") /\ task[t].outcome = "returned"
    /\ \A t, u \in Tasks : task[t].sid = task[u].sid

\* C9: the phases of a run of execute come in the order Start,
\* CredentialsSubmitted, then Rejected, DirectDashboard or
\* ClubSelectionPending, then one terminal phase; Authenticated only follows
\* DirectDashboard or ClubSelectionPending.
PhaseOrders ==
    LET S == "Start" CS == "CredentialsSubmitted" R == "Rejected"
        DD == "DirectDashboard" CP == "ClubSelectionPending"
        A == "Authenticated" F == "Failed" IN
    { <<S>>, <<S, F>>, <<S, CS>>, <<S, CS, R>>, <<S, CS, R, F>>,
      <<S, CS, DD>>, <<S, CS, DD, A>>, <<S, CS, DD, F>>,
      <<S, CS, CP>>, <<S, CS, CP, A>>, <<S, CS, CP, F>> }

\* C9: every run of execute follows the phase order, inspects the URL only
\* after the credentials were submitted, parses or selects clubs only after the
\* rejection check, and ends in exactly one of Authenticated (returned) and
\* Failed (raised).
C9_PhaseOrder ==
    \A t \in Tasks :
        task[t].hist # <<>> =>
            /\ task[t].hist \in PhaseOrders
            /\ task[t].url # "none" => InSeq("CredentialsSubmitted", task[t].hist)
            /\ task[t].url = "login_error" =>
                  \A ph \in {"DirectDashboard", "ClubSelectionPending", "Authenticated"} :
                      ~InSeq(ph, task[t].hist)
            /\ InSeq("Rejected", task[t].hist) =>
                  (task[t].url \in {"login_error", "none"} /\ task[t].clubs = <<>>
                      /\ task[t].selected_club = 0 /\ task[t].clicked = 0)
            /\ (task[t].clubs # <<>> \/ task[t].selected_club # 0 \/ task[t].clicked # 0) =>
                  (InSeq("ClubSelectionPending", task[t].hist) /\ task[t].url # "login_error")
            /\ task[t].op = "login" =>
                  /\ (Last(task[t].hist) = "Authenticated") <=>
                        (task[t].pc = "done" /\ task[t].outcome = "returned")
                  /\ (Last(task[t].hist) = "Failed") <=>
                        (task[t].pc = "done" /\ task[t].outcome = "raised")

\* C9 witness: a run that went through club selection and was authenticated.
C9_Witness ==
    \E t \in Tasks :
        /\ Done(t, "login")
        /\ task[t].hist = <<"Start", "CredentialsSubmitted", "ClubSelectionPending",
                            "Authenticated">>
        /\ task[t].selected_club # 0

\* C10 (as claimed): when the URL after submission is the rejection route,
\* execute raises LoginError carrying the page's error text or a generic
\* message, for every selector combination, without parsing or selecting clubs.
C10_RejectedIsLoginError ==
    \A t \in Tasks :
        (Done(t, "login") /\ InSeq("Rejected", task[t].hist)) =>
            /\ task[t].outcome = "raised" /\ task[t].exc = "LoginError"
            /\ task[t].msg \in {"page_text", "Unknown error", "Invalid credentials"}
            /\ task[t].clubs = <<>> /\ task[t].clicked = 0

\* The task has run _handle_club_selection on the selection surface and holds
\* its result (the parsed list and the chosen option).
Selected(t) ==
    /\ task[t].op = "login"
    /\ InSeq("ClubSelectionPending", task[t].hist)
    /\ \/ task[t].pc \in {"hc_select", "lf_wait_dash"}
       \/ task[t].pc = "done" /\ task[t].outcome = "returned"

\* C11 (as claimed): whenever execute returns a success result, the page is
\* outside the club-selection surface, whether or not a selection was made.
C11_SettledOutsideSelection ==
    \A t \in Tasks :
        (Done(t, "login") /\ task[t].outcome = "returned") =>
            task[t].url # "select_club"

\* Position in clubs of the option whose id is the supplied identifier, 0 when
\* there is none.
IdPosition(clubs, id) ==
    IF \E i \in 1..Len(clubs) : Club(clubs[i]).id = id
    THEN CHOOSE i \in 1..Len(clubs) :
             Club(clubs[i]).id = id /\ \A j \in 1..(i - 1) : Club(clubs[j]).id # id
    ELSE 0

\* C12 (as claimed): on the selection surface a supplied identifier, whatever
\* its integer value, takes precedence over a type+name pair: the option with
\* that id is the selected one if it was parsed, otherwise nothing is
\* selected or clicked and no club-not-found error is raised.
C12_IdentifierPrecedence ==
    \A t \in Tasks :
        (task[t].op = "login" /\ task[t].club_id # <<>>) =>
            /\ task[t].msg # "club_not_found"
            /\ Selected(t) =>
                  /\ task[t].selected_club = IdPosition(task[t].clubs, task[t].club_id[1])
                  /\ task[t].selected_club = 0 => task[t].clicked = 0

\* A type+name pair was supplied without an identifier.
PairOnly(t) ==
    /\ task[t].club_id = <<>>
    /\ task[t].club_type # <<>> /\ task[t].club_name # <<>>

\* One of the parsed options matches the pair, by category and name or by
\* its raw label text.
SomeOptionMatches(t) ==
    \E i \in 1..Len(task[t].clubs) :
        LET c == Club(task[t].clubs[i])
            ty == Lower(task[t].club_type)
            nm == Lower(task[t].club_name) IN
        \/ c.club_type # <<>> /\ Contains(ty, Lower(c.club_type))
                              /\ Contains(nm, Lower(c.name))
        \/ Contains(ty, Lower(c.full_text)) /\ Contains(nm, Lower(c.full_text))

\* C13, the decision: when _handle_club_selection has parsed the options and
\* none matches the supplied pair, it raises LoginError with the details of
\* the request and clicks nothing.
C13_Raise ==
    \A t \in Tasks :
        (task[t].op = "login" /\ task[t].pc = "hc_extract" /\ PairOnly(t)
            /\ task'[t].pc # "hc_extract" /\ ~SomeOptionMatches(t)')
        => /\ task'[t].pc = "lf_except" /\ task'[t].exc = "LoginError"
           /\ task'[t].msg = "club_not_found"
           /\ task'[t].clicked = 0 /\ task'[t].selected_club = 0

\* C13, the error that reaches the caller: it is a LoginError carrying the
\* requested type, the requested name and one display entry per parsed
\* option, raised only for a pair no option matches, with nothing clicked.
C13_Carried ==
    \A t \in Tasks :
        (task[t].op = "login" /\ task[t].msg = "club_not_found") =>
            /\ task[t].exc = "LoginError"
            /\ task[t].pc \in {"lf_except", "done"}
            /\ task[t].pc = "done" => task[t].outcome = "raised"
            /\ task[t].clicked = 0 /\ task[t].selected_club = 0
            /\ task[t].club_type # <<>> /\ task[t].club_name # <<>>
            /\ ~SomeOptionMatches(t)
            /\ task[t].details.requested_type = task[t].club_type
            /\ task[t].details.requested_name = task[t].club_name
            /\ Len(task[t].details.available_clubs) = Len(task[t].clubs)
            /\ \A i \in 1..Len(task[t].clubs) :
                  task[t].details.available_clubs[i]
                      = Club(task[t].clubs[i]).name \o <<" ", "(">>
                          \o (IF Club(task[t].clubs[i]).club_type = <<>>
                              THEN <<"N", "o", "n", "e">>
                              ELSE Club(task[t].clubs[i]).club_type) \o <<")">>

\* C13: on the selection surface, with no identifier and a type+name pair that
\* no parsed option matches, execute fails with a LoginError that carries the
\* requested type, the requested name and one display entry per parsed option,
\* and no option is clicked.
C13_ClubNotFound == [] C13_Carried /\ [][C13_Raise]_vars

\* C13 witness: the login was raised as LoginError for a pair that matches
\* neither of two parsed options.
C13_Witness ==
    \E t \in Tasks :
        /\ Done(t, "login") /\ task[t].outcome = "raised"
        /\ task[t].exc = "LoginError" /\ task[t].msg = "club_not_found"
        /\ Len(task[t].details.available_clubs) = 2 /\ task[t].clicked = 0

\* The positions of clubs whose option satisfies M for the type and name.
Matching(clubs, ty, nm, M(_, _, _)) ==
    {i \in 1..Len(clubs) : M(Club(clubs[i]), Lower(ty), Lower(nm))}
Least(S) == IF S = {} THEN 0 ELSE CHOOSE i \in S : \A j \in S : i <= j

\* The normalized category contains the type and the name contains the name.
CategoryNameMatch(c, ty, nm) ==
    /\ c.club_type # <<>>
    /\ Contains(ty, Lower(c.club_type)) /\ Contains(nm, Lower(c.name))
\* The raw label text contains both.
RawLabelMatch(c, ty, nm) ==
    c.full_text # <<>> /\ Contains(ty, Lower(c.full_text)) /\ Contains(nm, Lower(c.full_text))
\* The raw label text, or for an option without one its name and category
\* joined by a space, contains both.
LabelOrJoinedMatch(c, ty, nm) ==
    LET text == IF c.full_text # <<>> THEN c.full_text
                ELSE c.name \o <<" ">> \o c.club_type IN
    Contains(ty, Lower(text)) /\ Contains(nm, Lower(text))

NoSelector(t) ==
    /\ task[t].club_id = <<>>
    /\ task[t].club_type = <<>> \/ task[t].club_name = <<>>

\* C15, the decision: with no identifier and no complete pair,
\* _handle_club_selection raises nothing and goes on to select or to the
\* final wait.
C15_NoRaise ==
    \A t \in Tasks :
        (task[t].op = "login" /\ task[t].pc = "hc_extract" /\ NoSelector(t)
            /\ task'[t] # task[t])
        => /\ task'[t].pc = IF task'[t].clubs # <<>> THEN "hc_select" ELSE "lf_wait_dash"
           /\ task'[t].exc = "none"

\* C15, the result: the first parsed option is the selected one; with no
\* parsed option nothing is selected or clicked.
C15_FirstOption ==
    \A t \in Tasks :
        (task[t].op = "login" /\ NoSelector(t)) =>
            /\ task[t].msg # "club_not_found"
            /\ Selected(t) =>
                  /\ task[t].selected_club = IF task[t].clubs # <<>> THEN 1 ELSE 0
                  /\ task[t].clubs = <<>> => task[t].clicked = 0

\* C15: on the selection surface, with neither an identifier nor a complete
\* type+name pair, the first parsed option is selected and reported; when no
\* option was parsed nothing is selected and the login goes on to succeed.
C15_DefaultFirst == [] C15_FirstOption /\ [][C15_NoRaise]_vars

\* C15 witness: only a type was supplied, two options were parsed and the
\* login returned with the first one selected.
C15_Witness ==
    \E t \in Tasks :
        /\ Done(t, "login") /\ task[t].outcome = "returned"
        /\ task[t].club_id = <<>> /\ task[t].club_type # <<>> /\ task[t].club_name = <<>>
        /\ Len(task[t].clubs) = 2 /\ task[t].selected_club = 1 /\ task[t].clicked = 2

\* C16, the last step: on the direct route the final settle wait either ends
\* execute with the success result or fails on its own.
C16_Returns ==
    \A t \in Tasks :
        (task[t].op = "login" /\ task[t].pc = "lf_wait_dash"
            /\ InSeq("DirectDashboard", task[t].hist) /\ task'[t] # task[t])
        => \/ task'[t].pc = "done" /\ task'[t].outcome = "returned"
           \/ task'[t].pc = "lf_except" /\ task'[t].exc \in DriverFailures

\* C16, the result: on the direct route nothing is parsed, selected or
\* clicked, whatever selectors were supplied, and the returned session's
\* context is the one mapped under the session id, not closed by execute.
C16_NoSelection ==
    \A t \in Tasks :
        (task[t].op = "login" /\ InSeq("DirectDashboard", task[t].hist)) =>
            /\ task[t].clubs = <<>> /\ task[t].selected_club = 0 /\ task[t].clicked = 0
            /\ task[t].msg # "club_not_found"
            /\ (task[t].pc = "done" /\ task[t].outcome = "returned") =>
                  /\ task[t].ctx # NoCtx /\ contexts[task[t].sid] = task[t].ctx
                  /\ ctxState[task[t].ctx] = "live" \/ ~connected

\* C16: with accepted credentials and a post-login URL that is not the
\* selection surface, execute returns the success result with an empty
\* membership list and no selected option for every selector combination,
\* clicks nothing and leaves the context live and mapped.
C16_DirectDashboard == [] C16_NoSelection /\ [][C16_Returns]_vars

\* C16 witness: execute returned on the direct route although an identifier
\* and a type+name pair were supplied; the context is live and mapped.
C16_Witness ==
    \E t \in Tasks :
        /\ Done(t, "login") /\ task[t].outcome = "returned"
        /\ InSeq("DirectDashboard", task[t].hist)
        /\ task[t].club_id # <<>> /\ task[t].club_type # <<>> /\ task[t].club_name # <<>>
        /\ task[t].clubs = <<>> /\ task[t].selected_club = 0
        /\ ctxState[task[t].ctx] = "live" /\ contexts[task[t].sid] = task[t].ctx

\* C17, the step: whatever happens to the clicks and the wait of _select_club,
\* execute goes on to its final wait with the chosen option kept, no
\* exception pending and the context neither closed nor unmapped.
C17_Swallowed ==
    \A t \in Tasks :
        (task[t].op = "login" /\ task[t].pc = "hc_select" /\ task'[t] # task[t])
        => /\ task'[t].pc = "lf_wait_dash" /\ task'[t].exc = "none"
           /\ task'[t].selected_club = task[t].selected_club
           /\ task'[t].clubs = task[t].clubs
           /\ contexts' = contexts
           /\ ctxState'[task[t].ctx] = ctxState[task[t].ctx]

\* C17, the result: once an option is chosen the only way on is the final
\* wait; a run that ends with the option still chosen ended with the success
\* result and the context mapped.
C17_Reported ==
    \A t \in Tasks :
        (task[t].op = "login" /\ task[t].selected_club # 0) =>
            /\ task[t].pc \in {"hc_select", "lf_wait_dash", "done"}
            /\ task[t].pc = "done" =>
                  (task[t].outcome = "returned" /\ contexts[task[t].sid] = task[t].ctx)

\* C17: a failure of the option click, the confirmation click or the settle
\* wait of _select_club is not fatal: execute raises nothing because of it,
\* still returns the success result reporting the chosen option and does not
\* close the context.
C17_SelectNonFatal == [] C17_Reported /\ [][C17_Swallowed]_vars

\* C17 witness: execute returned a success result with an option selected
\* although the first click failed; the context is live and mapped.
C17_Witness ==
    \E t \in Tasks :
        /\ Done(t, "login") /\ task[t].outcome = "returned"
        /\ task[t].selected_club # 0 /\ task[t].clicked = 0
        /\ ctxState[task[t].ctx] = "live" /\ contexts[task[t].sid] = task[t].ctx

\* C18 (as claimed): a driver timeout in the main flow of execute surfaces as
\* NavigationError, every other exception that is not a LoginError (the
\* BrowserError of create_context included) surfaces as LoginError, and no
\* other error type leaves execute.
C18_ErrorTypes ==
    \A t \in Tasks :
        task[t].op = "login" =>
            /\ task[t].pc = "lf_raise_nav" => task[t].pend = "Timeout"
            /\ task[t].pc = "lf_raise_login" =>
                  task[t].pend \notin {"Timeout", "LoginError", "none"}
            /\ (task[t].pc = "done" /\ task[t].outcome = "raised") =>
                  /\ task[t].exc \in {"LoginError", "NavigationError"}
                  /\ task[t].exc = "NavigationError" <=> task[t].msg = "timeout"

\* C19 (as claimed): whenever a NavigationError reaches the caller of
\* LoginFlow.execute, of ClubVirtualService.login or of
\* get_tasks_and_reports, the session's context has
\* been closed and the session id is no longer in the session map.
C19_CleanupBeforeNavigationError ==
    \A t \in Tasks :
        (task[t].pc = "done" /\ task[t].outcome = "raised"
           /\ task[t].exc = "NavigationError") =>
            /\ contexts[task[t].sid] = NoCtx
            /\ task[t].ctx # NoCtx => ctxState[task[t].ctx] # "live"

\* C20 (as claimed): whatever the outcome of the screenshot step of extract,
\* the response built after it has success:true and carries the data of
\* every extractor that succeeded.
C20_ScreenshotNonFatal ==
    [][\A t \in Tasks :
        (task[t].op = "extract" /\ task[t].pc = "ox_shot" /\ task'[t] # task[t]) =>
            /\ task'[t].res = "success"
            /\ task'[t].res_data =
                  {n \in ResponseFields : InSeq(n, task[t].extracted_data)}]_vars

\* C21 (as claimed): logout always returns; when it has returned the
\* session's identifier is not in the session map and the context it found is
\* no longer live; for an unknown identifier it returns at once and leaves
\* the session map unchanged.
C21_Returns ==
    \A t \in Tasks :
        Done(t, "logout") =>
            /\ task[t].outcome = "returned"
            /\ contexts[task[t].sid] = NoCtx
            /\ task[t].ctx # NoCtx => ctxState[task[t].ctx] # "live"

C21_UnknownNoOp ==
    \A t \in Tasks :
        (task[t].pc = "idle" /\ task'[t].op = "logout"
           /\ contexts[task'[t].sid] = NoCtx) =>
            /\ Done(t, "logout")' /\ task'[t].outcome = "returned"
            /\ contexts' = contexts /\ ctxState' = ctxState

C21_LogoutCleansUp == [] C21_Returns /\ [][C21_UnknownNoOp]_vars

\* C22: in every extract call the names attempted so far are a prefix of the
\* effective include list, which is the caller's list when that is non-empty
\* and otherwise the registry's list at call time; once the login has
\* succeeded and the loop has ended, the names attempted are exactly that
\* list, in order, each registered extractor exactly once in the default case.
IsPrefix(a, b) == Len(a) <= Len(b) /\ \A i \in 1..Len(a) : a[i] = b[i]

LoopEnded(t) ==
    /\ task[t].op = "extract" /\ task[t].session_id # NoSid
    /\ task[t].pc \notin {"ox_after_login", "ox_loop"}

C22_AttemptsIncludeList ==
    \A t \in Tasks :
        task[t].op = "extract" =>
            /\ task[t].include = IF task[t].req_include = <<>> THEN extractors
                                 ELSE task[t].req_include
            /\ IsPrefix(task[t].attempted, task[t].include)
            /\ LoopEnded(t) =>
                /\ task[t].attempted = task[t].include
                /\ task[t].req_include = <<>> =>
                      \A i \in 1..Len(extractors) :
                          Cardinality({j \in 1..Len(task[t].attempted) :
                                          task[t].attempted[j] = extractors[i]}) = 1

C22_Witness ==
    \E t \in Tasks :
        /\ Done(t, "extract") /\ LoopEnded(t)
        /\ task[t].req_include = <<>>
        /\ task[t].attempted = <<"profile", "tasks", "custom">>

\* C23 (as claimed): within one operation no surface (login, profile,
\* active-courses) is navigated to more than once.
Count(x, seq) == Cardinality({i \in 1..Len(seq) : seq[i] = x})

C23_NoRetry ==
    \A t \in Tasks : \A target \in {"login", "profile", "tasks"} :
        Count(target, task[t].navs) <= 1

\* C24: ExtractorRegistry.get(name) returns exactly when name is among
\* list_extractors(); otherwise it raises ValueError carrying the requested
\* name and the registered names; the call leaves the registry unchanged.
C24_Outcome ==
    \A t \in Tasks :
        Done(t, "registry_get") =>
            /\ task[t].outcome = "returned" <=> InSeq(task[t].name, list_extractors)
            /\ task[t].outcome = "returned" => task[t].res = task[t].name
            /\ task[t].outcome # "returned" =>
                  /\ task[t].outcome = "raised" /\ task[t].exc = "ValueError"
                  /\ task[t].available = list_extractors

C24_Frame ==
    \A t \in Tasks :
        (task[t].pc = "idle" /\ task'[t].op = "registry_get") =>
            extractors' = extractors

C24_RegistryGet == [] C24_Outcome /\ [][C24_Frame]_vars

C24_Witness ==
    \E t \in Tasks :
        /\ Done(t, "registry_get") /\ task[t].outcome = "raised"
        /\ task[t].name = "bogus"
        /\ task[t].available = <<"profile", "tasks", "custom">>

\* C25 (as claimed): when create_context is entered while is_ready is false
\* (no browser, or a browser that is no longer connected), it raises
\* BrowserError at once, closes no context and leaves the session map
\* unchanged.
C25_NotReadyStep ==
    \A t \in Tasks :
        (task[t].pc = "cc_start" /\ task'[t] # task[t] /\ ~is_ready) =>
            /\ task'[t].exc = "BrowserError"
            /\ task'[t].pc = ExcPc(Head(task[t].stack))
            /\ contexts' = contexts
            /\ \A c \in Ctxs : ctxState[c] = "live" => ctxState'[c] = "live"

C25_BrowserNotReady == [][C25_NotReadyStep]_vars

\* C26 (as claimed): save_session on an identifier that is not in the
\* session map raises BrowserError and changes nothing; on a known identifier
\* it returns the given path, or the default location of the identifier, and
\* leaves the session map and every context's state unchanged.
C26_Entry ==
    \A t \in Tasks :
        (task[t].pc = "idle" /\ task'[t].op = "save_session") =>
            /\ contexts' = contexts /\ ctxState' = ctxState
            /\ IF contexts[task'[t].sid] = NoCtx
               THEN /\ Done(t, "save_session")' /\ task'[t].outcome = "raised"
                    /\ task'[t].exc = "BrowserError"
               ELSE task'[t].pc = "ss_saving"

C26_Location(t) ==
    task[t].location = IF task[t].path # "none" THEN task[t].path
                       ELSE DefaultPath(task[t].sid)

C26_Saved ==
    \A t \in Tasks :
        (task[t].pc = "ss_saving" /\ task'[t] # task[t]) =>
            /\ contexts' = contexts /\ ctxState' = ctxState
            /\ Done(t, "save_session")' /\ task'[t].outcome = "returned"
            /\ C26_Location(t)'

C26_SaveSession == [][C26_Entry /\ C26_Saved]_vars

\* C26 (amended): as above, except that on a known identifier the driver's
\* storage_state call may fail, and then its error is raised instead of the
\* location being returned; the session map and every context's state are
\* unchanged in that case too.
C26_SavedOrDriverError ==
    \A t \in Tasks :
        (task[t].pc = "ss_saving" /\ task'[t] # task[t]) =>
            /\ contexts' = contexts /\ ctxState' = ctxState
            /\ Done(t, "save_session")'
            /\ \/ task'[t].outcome = "returned" /\ C26_Location(t)'
               \/ /\ task'[t].outcome = "raised" /\ task'[t].exc \in DriverFailures
                  /\ task'[t].location = "none"

C26_SaveSessionOrDriverError == [][C26_Entry /\ C26_SavedOrDriverError]_vars

C26_Witness ==
    \E t \in Tasks :
        /\ Done(t, "save_session") /\ task[t].outcome = "returned"
        /\ task[t].path = "none" /\ task[t].location = "sessions/s2.json"
        /\ contexts[task[t].sid] = task[t].ctx /\ ctxState[task[t].ctx] = "live"

\* C27: get_context returns the context mapped under the identifier, or
\* absent, without awaiting anything, and leaves the session map, every
\* context's state and the browser handle unchanged.
C27_Lookup ==
    \A t \in Tasks :
        (task[t].pc = "idle" /\ task'[t].op = "get_context") =>
            /\ Done(t, "get_context")' /\ task'[t].outcome = "returned"
            /\ task'[t].ctx = contexts[task'[t].sid]
            /\ UNCHANGED <<contexts, ctxState, leaked, playwright, browser, connected>>

C27_PureLookup == [][C27_Lookup]_vars

C27_Witness ==
    \E t \in Tasks :
        /\ Done(t, "get_context") /\ task[t].ctx = NoCtx
        /\ contexts[task[t].sid] = NoCtx
        /\ is_ready /\ Mapped # {}

\* C28: is_ready is false before initialize, after a failed initialize, after
\* close() and once the browser has disconnected; it becomes true when
\* initialize succeeds and stays true until the browser disconnects or
\* close() closes it; the readiness endpoint answers 503 exactly when
\* is_ready is false.
C28_FalseCases ==
    /\ (~playwright /\ browser = "none") => ~is_ready
    /\ \A t \in Tasks :
        /\ (Done(t, "initialize") /\ task[t].outcome = "raised") => ~is_ready
        /\ Done(t, "close") => ~is_ready
        /\ (Done(t, "initialize") /\ task[t].outcome = "returned" /\ connected)
              => is_ready

InitializeSucceeds ==
    \E t \in Tasks : /\ task[t].pc = "idle" /\ Done(t, "initialize")'
                     /\ task'[t].outcome = "returned"
Disconnects == connected /\ ~connected'
BrowserClosed == \E t \in Tasks : task[t].pc = "td_browser" /\ task'[t] # task[t]

C28_Changes ==
    is_ready' = IF InitializeSucceeds THEN TRUE
                ELSE IF Disconnects \/ BrowserClosed THEN FALSE
                ELSE is_ready

C28_Endpoint ==
    \A t \in Tasks :
        (task[t].pc = "idle" /\ task'[t].op = "readiness") =>
            /\ Done(t, "readiness")'
            /\ task'[t].res = (IF is_ready THEN "200" ELSE "503")
            /\ task'[t].res = "503" <=> ~is_ready
            /\ task'[t].outcome = (IF is_ready THEN "returned" ELSE "raised")

PagePcs ==
    {"lf_main", "lf_get_error", "hc_extract", "hc_select", "lf_wait_dash",
     "ox_loop", "ox_shot"}

CloseIssued(t) ==
    /\ task[t].op = "extract"
    /\ \/ task[t].pc \in {"xc_start", "xc_closing", "lf_except", "lf_raise_rejected",
                          "lf_raise_nav", "lf_raise_login", "lf_propagate", "ox_except",
                          "ox_return", "ox_propagate", "done"}
       \/ task[t].pc = "ox_finally" /\ task[t].session_id = NoSid

C29_Order ==
    \A t \in Tasks :
        /\ (task[t].op = "extract" /\ task[t].pc \in {"xc_start", "xc_closing"})
              => CloseIssued(t)
        /\ CloseIssued(t) => task[t].pc \notin PagePcs
        /\ (task[t].op = "extract" /\ task[t].pc = "xc_start"
              /\ Head(task[t].stack) = "O226") =>
              /\ task[t].session_id = task[t].sid
              /\ task[t].attempted = task[t].include
              /\ task[t].screenshot \/ task[t].res = "failure" \/ ~SCREENSHOTS_ENABLED

C29_NoPageOpAfterClose ==
    \A t \in Tasks :
        (CloseIssued(t) /\ task'[t] # task[t]) =>
            CloseIssued(t)' \/ task'[t].pc = "idle"

C29_BorrowedPage == [] C29_Order /\ [][C29_NoPageOpAfterClose]_vars

C29_Witness ==
    \E t \in Tasks :
        /\ Done(t, "extract") /\ task[t].outcome = "returned"
        /\ task[t].res = "success" /\ task[t].screenshot
        /\ task[t].attempted = <<"profile", "tasks">>
        /\ contexts[task[t].session_id] = NoCtx

\* C30: a step of create_context, close_context, save_session or new_page
\* made for one identifier leaves the entry of every other identifier in the
\* session map as it was, and leaves the state of the context mapped there
\* as it was, whatever the other request is in the middle of.
ActingSid(t) == IF task[t].pc = "idle" THEN task'[t].sid ELSE task[t].sid

C30_OtherSessionsUntouched ==
    \A t \in Tasks :
        task'[t] # task[t] =>
            \A s \in Sids \ {ActingSid(t)} :
                /\ contexts'[s] = contexts[s]
                /\ contexts[s] # NoCtx =>
                      ctxState'[contexts[s]] = ctxState[contexts[s]]

C30_Independent == [][C30_OtherSessionsUntouched]_vars

C30_Witness ==
    \E t, u \in Tasks :
        /\ t # u
        /\ Done(t, "close_context") /\ task[t].outcome = "returned"
        /\ contexts[task[t].sid] = NoCtx
        /\ task[u].pc \in {"ss_saving", "np_creating"}
        /\ contexts[task[u].sid] = task[u].ctx /\ ctxState[task[u].ctx] = "live"

\* ==================================================== label text parsing
\* Positions at which sub occurs in str.
Occurrences(sub, str) ==
    {i \in 1..(Len(str) - Len(sub) + 1) : SubSeq(str, i, i + Len(sub) - 1) = sub}

\* str.split(sep, 1) and str.rsplit(sep, 1): one part when sep is absent.
Split1(sep, str) ==
    IF Occurrences(sep, str) = {} THEN <<str>>
    ELSE LET i == CHOOSE x \in Occurrences(sep, str) :
                      \A y \in Occurrences(sep, str) : x <= y IN
         <<SubSeq(str, 1, i - 1), SubSeq(str, i + Len(sep), Len(str))>>

RSplit1(sep, str) ==
    IF Occurrences(sep, str) = {} THEN <<str>>
    ELSE LET i == CHOOSE x \in Occurrences(sep, str) :
                      \A y \in Occurrences(sep, str) : y <= x IN
         <<SubSeq(str, 1, i - 1), SubSeq(str, i + Len(sep), Len(str))>>

\* str.strip(), for the blank the labels contain
Strip(str) ==
    LET inked == {i \in 1..Len(str) : str[i] # " "} IN
    IF inked = {} THEN <<>>
    ELSE SubSeq(str, CHOOSE x \in inked : \A y \in inked : x <= y,
                     CHOOSE x \in inked : \A y \in inked : y <= x)

\* str.startswith(prefix)
StartsWith(prefix, str) ==
    Len(prefix) <= Len(str) /\ SubSeq(str, 1, Len(prefix)) = prefix

\* str.replace(sub, "")
RECURSIVE Remove(_, _)
Remove(sub, str) ==
    IF Len(str) < Len(sub) THEN str
    ELSE IF StartsWith(sub, str) THEN Remove(sub, SubSeq(str, Len(sub) + 1, Len(str)))
    ELSE <<str[1]>> \o Remove(sub, Tail(str))

S_como == <<" ", "c", "o", "m", "o", " ">>
S_CommaClubDe == <<",", " ", "C", "l", "u", "b", " ", "d", "e", " ">>
S_Club == <<"C", "l", "u", "b", " ">>
S_Miembro == <<"M", "i", "e", "m", "b", "r", "o">>

\* _detect_club_type with the conquistador test ahead of the aventurero test.
detect_club_type_ConquistadorFirst(text) ==
    LET text_lower == Lower(text) IN
    IF Contains(<<"c", "o", "n", "q", "u", "i", "s", "t", "a", "d", "o", "r">>, text_lower) THEN <<"C", "o", "n", "q", "u", "i", "s", "t", "a", "d", "o", "r", "e", "s">>
    ELSE IF Contains(<<"a", "v", "e", "n", "t", "u", "r", "e", "r", "o">>, text_lower) THEN S_Aventureros
    ELSE IF \/ Contains(<<"g", "u", "i", "a">>, text_lower)
            \/ Contains(<<"g", "u", "í", "a", "s">>, text_lower)
            \/ Contains(<<"m", "a", "y", "o", "r">>, text_lower) THEN <<"G", "u", "í", "a", "s", " ", "M", "a", "y", "o", "r", "e", "s">>
    ELSE <<>>

\* _detect_club_type; the empty sequence is None.
detect_club_type(text) ==
    LET text_lower == Lower(text) IN
    IF Contains(<<"a", "v", "e", "n", "t", "u", "r", "e", "r", "o">>, text_lower) THEN S_Aventureros
    ELSE IF Contains(<<"c", "o", "n", "q", "u", "i", "s", "t", "a", "d", "o", "r">>, text_lower) THEN <<"C", "o", "n", "q", "u", "i", "s", "t", "a", "d", "o", "r", "e", "s">>
    ELSE IF \/ Contains(<<"g", "u", "i", "a">>, text_lower)
            \/ Contains(<<"g", "u", "í", "a", "s">>, text_lower)
            \/ Contains(<<"m", "a", "y", "o", "r">>, text_lower) THEN <<"G", "u", "í", "a", "s", " ", "M", "a", "y", "o", "r", "e", "s">>
    ELSE <<>>

\* The three branches of lines 322-336, over the text without its role.
ParseNameAndType(text_without_role) ==
    IF Contains(S_CommaClubDe, text_without_role)
    THEN LET parts == Split1(S_CommaClubDe, text_without_role)
             name_part == Strip(parts[1])
             kind_part == IF Len(parts) > 1 THEN Strip(parts[2]) ELSE <<>>
         IN [name |-> IF StartsWith(<<"c", "l", "u", "b", " ">>, Lower(name_part))
                      THEN Strip(SubSeq(name_part, 6, Len(name_part))) ELSE name_part,
             club_type |-> detect_club_type(kind_part)]
    ELSE IF Contains(<<"C", "l", "u", "b", " ", "d", "e", " ">>, text_without_role)
    THEN LET parts == Split1(<<" ", "C", "l", "u", "b", " ", "d", "e", " ">>, text_without_role)
             kind_part == IF Len(parts) > 1 THEN Strip(parts[2]) ELSE <<>>
         IN [name |-> Strip(Remove(S_Club, parts[1])),
             club_type |-> detect_club_type(kind_part)]
    ELSE [name |-> Strip(Remove(S_Club, text_without_role)),
          club_type |-> detect_club_type(text_without_role)]

\* _parse_club_text cutting the role at the first " como " instead of the last.
parse_club_text_SplitFirst(full_text) ==
    LET parts == Split1(S_como, full_text)
        nt == ParseNameAndType(IF Len(parts) > 1 THEN Strip(parts[1]) ELSE full_text)
    IN [name |-> nt.name, club_type |-> nt.club_type,
        role |-> IF Len(parts) > 1 THEN Strip(parts[2]) ELSE S_Miembro]

\* _parse_club_text: (name, club_type, role) of a label text.
parse_club_text(full_text) ==
    LET has_role == Contains(S_como, full_text)
        parts == RSplit1(S_como, full_text)
        role == IF has_role
                THEN (IF Len(parts) > 1 THEN Strip(parts[2]) ELSE S_Miembro)
                ELSE S_Miembro
        text_without_role == IF has_role THEN Strip(parts[1]) ELSE full_text
        nt == ParseNameAndType(text_without_role)
    IN [name |-> nt.name, club_type |-> nt.club_type, role |-> role]

\* ---- the two functions applied on their own
\* Label texts are built from a name, a kind and a role ("" for no role
\* suffix) in the page's grammar and in the two grammars without separators.

LabelText(form, X, Y, Z) ==
    LET WithRole(text) == IF Z = <<>> THEN text ELSE text \o S_como \o Z IN
    CASE form = "full" -> WithRole(S_Club \o X \o S_CommaClubDe \o Y)
      [] form = "nocomma" -> WithRole(X \o <<" ", "C", "l", "u", "b", " ", "d", "e", " ">> \o Y)
      [] form = "plain" -> WithRole(S_Club \o X)

ParseClubText(t) ==
    /\ task[t].pc = "idle"
    /\ \E form \in {"full", "nocomma", "plain"},
          X \in {S_peniel, S_Sion, <<"C", "l", "u", "b", " ", "S", "u", "r">>, <<"L", "u", "z", " ", "c", "o", "m", "o", " ", "S", "o", "l">>},
          Y \in {S_Aventureros, <<"C", "O", "N", "Q", "U", "I", "S", "T", "A", "D", "O", "R", "E", "S">>, <<"G", "u", "i", "a", "s", " ", "M", "a", "y", "o", "r", "e", "s">>, S_castores},
          Z \in {<<"D", "i", "r", "e", "c", "t", "o", "r">>, S_Miembro, <<"G", "u", "í", "a", " ", "M", "a", "y", "o", "r">>, <<>>} :
        LET full_text == LabelText(form, X, Y, Z) IN
        task' = [task EXCEPT ![t] =
            [IdleTask EXCEPT !.op = "parse_club_text", !.pc = "done",
                             !.outcome = "returned",
                             !.parts = [form |-> form, X |-> X, Y |-> Y, Z |-> Z],
                             !.arg = full_text,
                             !.result = parse_club_text(full_text)]]
    /\ UNCHANGED <<playwright, browser, connected, contexts, extractors>>
    /\ Same

\* Kind texts are up to MaxWords words separated by blanks.
MaxWords == 2
KindWords == {<<"A", "V", "E", "N", "T", "U", "R", "E", "R", "O", "S">>, <<"C", "o", "n", "q", "u", "i", "s", "t", "a", "d", "o", "r">>, <<"g", "u", "i", "a">>, <<"G", "u", "í", "a", "s">>, <<"M", "a", "y", "o", "r", "e", "s">>,
              <<"G", "u", "í", "a">>, S_castores}

RECURSIVE Join(_)
Join(words) ==
    IF words = <<>> THEN <<>>
    ELSE IF Len(words) = 1 THEN words[1]
    ELSE words[1] \o <<" ">> \o Join(Tail(words))

DetectClubType(t) ==
    /\ task[t].pc = "idle"
    /\ \E words \in UNION {[1..n -> KindWords] : n \in 0..MaxWords} :
        task' = [task EXCEPT ![t] =
            [IdleTask EXCEPT !.op = "detect_club_type", !.pc = "done",
                             !.outcome = "returned",
                             !.parts = words, !.arg = Join(words),
                             !.result = detect_club_type(Join(words))]]
    /\ UNCHANGED <<playwright, browser, connected, contexts, extractors>>
    /\ Same

SpecParse ==
    Init /\ [][ParseClubText(Caller) \/ DetectClubType(Caller) \/ Finish(Caller)]_vars

\* ------------------------------------------------------------- C31, C32
\* C31: a label "Club X, Club de Y como Z" parses to the name X, the
\* category _detect_club_type gives for Y, and the role Z; a label without
\* " como " gets the role "Miembro"; the parse of every label returns.
C31_Parsed(t) == Done(t, "parse_club_text")

C31_ParseClubText ==
    \A t \in Tasks : C31_Parsed(t) =>
        /\ task[t].outcome = "returned"
        /\ (task[t].parts.form = "full" /\ task[t].parts.Z # <<>>) =>
              task[t].result = [name |-> task[t].parts.X,
                                club_type |-> detect_club_type(task[t].parts.Y),
                                role |-> task[t].parts.Z]
        /\ ~Contains(S_como, task[t].arg) => task[t].result.role = S_Miembro

\* A label whose name itself holds " como " was parsed, with a role.
C31_Witness ==
    \E t \in Tasks : /\ C31_Parsed(t)
                     /\ task[t].parts.form = "full"
                     /\ task[t].parts.X = <<"L", "u", "z", " ", "c", "o", "m", "o", " ", "S", "o", "l">>
                     /\ task[t].parts.Z = <<"D", "i", "r", "e", "c", "t", "o", "r">>
                     /\ task[t].result.role = <<"D", "i", "r", "e", "c", "t", "o", "r">>
                     /\ task[t].result.club_type # <<>>

\* C32: _detect_club_type returns for every text, and the categories are
\* tried in order: a word of the Aventureros family decides first, then one
\* of the Conquistadores family, then guia / guías / mayor; None otherwise.
WordFamily(w) ==
    CASE w = <<"A", "V", "E", "N", "T", "U", "R", "E", "R", "O", "S">> -> "a"
      [] w = <<"C", "o", "n", "q", "u", "i", "s", "t", "a", "d", "o", "r">> -> "c"
      [] w \in {<<"g", "u", "i", "a">>, <<"G", "u", "í", "a", "s">>, <<"M", "a", "y", "o", "r", "e", "s">>} -> "g"
      [] OTHER -> "-"

Families(words) == {WordFamily(words[i]) : i \in 1..Len(words)}

C32_DetectClubType ==
    \A t \in Tasks : Done(t, "detect_club_type") =>
        /\ task[t].outcome = "returned"
        /\ task[t].result =
              IF "a" \in Families(task[t].parts) THEN S_Aventureros
              ELSE IF "c" \in Families(task[t].parts) THEN <<"C", "o", "n", "q", "u", "i", "s", "t", "a", "d", "o", "r", "e", "s">>
              ELSE IF "g" \in Families(task[t].parts) THEN <<"G", "u", "í", "a", "s", " ", "M", "a", "y", "o", "r", "e", "s">>
              ELSE <<>>

\* A text naming both Conquistadores and Aventureros was classified.
C32_Witness ==
    \E t \in Tasks : /\ Done(t, "detect_club_type")
                     /\ {"a", "c"} \subseteq Families(task[t].parts)
                     /\ task[t].parts[1] = <<"C", "o", "n", "q", "u", "i", "s", "t", "a", "d", "o", "r">>
                     /\ task[t].result = S_Aventureros

\* ========================================================= TasksExtractor
\* parseInt(digits, 10) of a run of decimal digits
RECURSIVE ParseInt(_)
ParseInt(digits) ==
    IF digits = <<>> THEN 0
    ELSE LET c == digits[Len(digits)]
             value == CASE c = "0" -> 0 [] c = "1" -> 1 [] c = "2" -> 2 [] c = "3" -> 3
                        [] c = "4" -> 4 [] c = "5" -> 5 [] c = "6" -> 6 [] c = "7" -> 7
                        [] c = "8" -> 8 [] c = "9" -> 9
         IN 10 * ParseInt(SubSeq(digits, 1, Len(digits) - 1)) + value

\* A heading of the page with its container: whether the heading names a
\* course (lines 122-131), the digits of the first /(\d+)\s*%/ match in the
\* container text (none: the empty sequence), and whether the text holds one
\* of the investiture markers of lines 149-151.
Headings ==
    [course : {TRUE}, marker : BOOLEAN,
     percent : {<<>>, <<"0">>, <<"0", "5", "0">>, <<"1", "0", "0">>, <<"1", "5", "0">>}]
        \cup {[course |-> FALSE, percent |-> <<"1", "0", "0">>, marker |-> FALSE]}

MaxCourses == 2

\* The classInfo object built for one course heading (lines 133-166).
ClassInfo(h) ==
    LET completion_percentage == IF h.percent # <<>> THEN ParseInt(h.percent) ELSE 0 IN
    [completion_percentage |-> completion_percentage,
     is_ready_for_investiture |-> h.marker,
     status |-> IF h.marker THEN "Autorizado para investir"
                ELSE IF completion_percentage >= 100 THEN "Completado"
                ELSE IF completion_percentage > 0 THEN "En progreso"
                ELSE "Sin iniciar"]

\* _extract_active_classes: one classInfo per course heading, in page order.
RECURSIVE extract_active_classes(_)
extract_active_classes(pg) ==
    IF pg = <<>> THEN <<>>
    ELSE (IF pg[1].course THEN <<ClassInfo(pg[1])>> ELSE <<>>)
            \o extract_active_classes(Tail(pg))

RECURSIVE SumPercent(_)
SumPercent(classes) ==
    IF classes = <<>> THEN 0
    ELSE classes[1].completion_percentage + SumPercent(Tail(classes))

RECURSIVE GCD(_, _)
GCD(a, b) == IF b = 0 THEN a ELSE GCD(b, a % b)

\* total / n, kept as the fraction in lowest terms
Quotient(total, n) ==
    LET g == GCD(total, n) IN [num |-> total \div g, den |-> n \div g]

\* Lines 82-85 with 0 in place of None for an empty list.
overall_completion_ZeroWhenEmpty(active_classes) ==
    IF active_classes # <<>>
    THEN <<Quotient(SumPercent(active_classes), Len(active_classes))>>
    ELSE <<Quotient(0, 1)>>

\* Lines 82-85: None (the empty sequence) unless there are classes.
overall_completion(active_classes) ==
    IF active_classes # <<>>
    THEN <<Quotient(SumPercent(active_classes), Len(active_classes))>>
    ELSE <<>>

\* TasksExtractor.extract: the dictionary of lines 96-101, or the fallback
\* of lines 105-110 when one of the awaited page calls fails.
TasksExtract(t) ==
    /\ task[t].pc = "idle"
    /\ \E pg \in UNION {[1..n -> Headings] : n \in 0..MaxCourses}, r \in DriverOutcomes :
        LET active_classes == extract_active_classes(pg) IN
        task' = [task EXCEPT ![t] =
            [IdleTask EXCEPT !.op = "tasks_extract", !.pc = "done",
                             !.outcome = "returned", !.parts = pg, !.msg = r,
                             !.result =
                                IF r = "ok"
                                THEN [active_classes |-> active_classes,
                                      total_classes |-> Len(active_classes),
                                      overall_completion |-> overall_completion(active_classes),
                                      ready_for_investiture_count |->
                                          Cardinality({i \in 1..Len(active_classes) :
                                              active_classes[i].is_ready_for_investiture})]
                                ELSE [active_classes |-> <<>>, total_classes |-> 0,
                                      overall_completion |-> <<>>, error |-> r]]]
    /\ UNCHANGED <<playwright, browser, connected, contexts, extractors>>
    /\ Same

SpecTasks == Init /\ [][TasksExtract(Caller) \/ Finish(Caller)]_vars

\* ------------------------------------------------------------- C33, C34
\* C33: when the extractor parsed N courses, total_classes is N, the
\* overall completion is absent for N = 0 and otherwise the mean of the
\* percentages (overall * N = their sum), and the investiture-ready count is
\* the number of courses flagged ready.
C33_Courses(t) == SelectSeq(task[t].parts, LAMBDA h : h.course)
C33_Extracted(t) == Done(t, "tasks_extract") /\ task[t].msg = "ok"

RECURSIVE C33_Sum(_)
C33_Sum(hs) ==
    IF hs = <<>> THEN 0
    ELSE (IF hs[1].percent = <<>> THEN 0 ELSE ParseInt(hs[1].percent)) + C33_Sum(Tail(hs))

C33_Aggregates ==
    \A t \in Tasks : C33_Extracted(t) =>
        LET N == Len(C33_Courses(t))
            res == task[t].result
        IN /\ res.total_classes = N
           /\ N = 0 => res.overall_completion = <<>>
           /\ N > 0 => /\ res.overall_completion # <<>>
                       /\ res.overall_completion[1].num * N
                            = C33_Sum(C33_Courses(t)) * res.overall_completion[1].den
           /\ res.ready_for_investiture_count
                = Cardinality({i \in 1..N : C33_Courses(t)[i].marker})

\* Two courses with different percentages, one of them ready, were aggregated.
C33_Witness ==
    \E t \in Tasks : /\ C33_Extracted(t)
                     /\ Len(C33_Courses(t)) = 2
                     /\ task[t].result.overall_completion = <<[num |-> 75, den |-> 1]>>
                     /\ task[t].result.ready_for_investiture_count = 1

\* C34: every course record the extractor returns has a completion
\* percentage between 0 and 100 inclusive, whatever number stands before the
\* percent sign in the container text.
C34_PercentInRange ==
    \A t \in Tasks : Done(t, "tasks_extract") =>
        \A i \in 1..Len(task[t].result.active_classes) :
            /\ task[t].result.active_classes[i].completion_percentage >= 0
            /\ task[t].result.active_classes[i].completion_percentage <= 100

\* ======================================================== health endpoints
\* settings.VERSION and settings.ENVIRONMENT (config.py:21-22)
VERSION == "0.1.0"
ENVIRONMENT == "development"

\* GET /health answering 503 when the browser is not ready, as /health/ready does.
HealthCheck_503WhenNotReady(t) ==
    /\ task[t].pc = "idle"
    /\ task' = [task EXCEPT ![t] =
           LET tk == [IdleTask EXCEPT !.op = "health_check", !.stack = <<"top">>] IN
           IF ~is_ready THEN DoRaise([tk EXCEPT !.res = "503"], "HTTPException")
           ELSE DoReturn([tk EXCEPT !.res = "200",
                    !.result = [status |-> "healthy", version |-> VERSION,
                                environment |-> ENVIRONMENT, browser_ready |-> is_ready]])]
    /\ UNCHANGED <<playwright, browser, connected, contexts, extractors>>
    /\ Same

\* routes.py:134-149, GET /health: the HealthResponse, with status 200.
HealthCheck(t) ==
    /\ task[t].pc = "idle"
    /\ task' = [task EXCEPT ![t] =
           DoReturn([IdleTask EXCEPT !.op = "health_check", !.stack = <<"top">>,
                        !.res = "200",
                        !.result = [status |-> "healthy", version |-> VERSION,
                                    environment |-> ENVIRONMENT,
                                    browser_ready |-> is_ready]])]
    /\ UNCHANGED <<playwright, browser, connected, contexts, extractors>>
    /\ Same

\* routes.py:152-160, GET /health/live: no dependency on the browser manager.
Liveness(t) ==
    /\ task[t].pc = "idle"
    /\ task' = [task EXCEPT ![t] =
           DoReturn([IdleTask EXCEPT !.op = "liveness", !.stack = <<"top">>,
                        !.res = "200", !.result = [status |-> "alive"]])]
    /\ UNCHANGED <<playwright, browser, connected, contexts, extractors>>
    /\ Same

\* The probes arrive while the manager's own calls are under way.
Prober == "t2"

SpecHealth ==
    Init /\ [][\/ MgrStep(Lifespan) \/ BrowserCrash
               \/ HealthCheck(Prober) \/ Liveness(Prober) \/ Readiness(Prober)
               \/ Finish(Prober)]_vars

\* ------------------------------------------------------------------ C35
\* C35: in every state of the browser manager GET /health and GET
\* /health/live answer 200; the liveness answer is {"status": "alive"}
\* whatever the browser state; the health answer carries the status, the
\* version, the environment and browser_ready equal to is_ready.
C35_Answered ==
    \A t \in Tasks :
        /\ Done(t, "health_check") =>
              /\ task[t].outcome = "returned" /\ task[t].res = "200"
              /\ task[t].result.status = "healthy"
              /\ task[t].result.version = VERSION
              /\ task[t].result.environment = ENVIRONMENT
        /\ Done(t, "liveness") =>
              /\ task[t].outcome = "returned" /\ task[t].res = "200"
              /\ task[t].result = [status |-> "alive"]

C35_Step ==
    \A t \in Tasks :
        /\ (task[t].pc = "idle" /\ task'[t].op = "health_check") =>
              /\ Done(t, "health_check")'
              /\ task'[t].res = "200"
              /\ task'[t].result.browser_ready = is_ready
        /\ (task[t].pc = "idle" /\ task'[t].op = "liveness") =>
              /\ Done(t, "liveness")' /\ task'[t].res = "200"

C36_ErrorsNamed ==
    \A t \in Tasks : task[t].op = "extract" =>
        \A i \in 1..Len(task[t].errors) :
            /\ task[t].errors[i].named
            /\ InSeq(task[t].errors[i].src, task[t].attempted)

\* ------------------------------------------------------------------ C37
\* C37: when close_context calls for one identifier overlap, or close_context
\* overlaps close(), no close_context raises (failures of the driver's own
\* close apart) and the identifier no longer maps to the closed context.
C37_CloseCompletes ==
    \A t \in Tasks :
        (task[t].pc = "xc_closing" /\ task'[t] # task[t]
            /\ task'[t].exc \notin DriverFailures)
        => /\ task'[t].outcome = "returned"
           /\ contexts'[task[t].sid] # task[t].old

C37_OverlappingCloses == [][C37_CloseCompletes]_vars

\* ------------------------------------------------------------------ C38
\* C38: once close() has returned the session map is empty and no context is
\* live, and this stays so, also when a create_context was suspended in
\* new_context() while close() ran.
C38_EmptyAfterTeardown ==
    \A t \in Tasks :
        (Done(t, "close") /\ task[t].outcome = "returned") =>
            /\ \A s \in Sids : contexts[s] = NoCtx
            /\ LiveCtxs = {}

\* ------------------------------------------------------------------ C39
\* C39: when the driver fails to close the context, close_context raises the
\* driver's error and the identifier stays mapped to the same context;
\* create_context for an identifier whose old context fails to close raises
\* the error too, creates no context and leaves the map as it was.
C39_CloseFails(t) ==
    /\ task[t].pc \in {"xc_closing", "cc_closing"}
    /\ task[t].op \in {"close_context", "create_context"}
    /\ task'[t] # task[t]
    /\ task'[t].exc \in DriverFailures

C39_Step ==
    \A t \in Tasks : C39_CloseFails(t) =>
        /\ Done(t, task[t].op)'
        /\ task'[t].outcome = "raised"
        /\ task'[t].ctx = NoCtx
        /\ contexts' = contexts
        /\ contexts'[task[t].sid] = task[t].old
        /\ \A c \in Ctxs : ctxState[c] = "free" => ctxState'[c] = "free"

C39_UnchangedOnCloseFailure == [][C39_Step]_vars

\* create_context for a mapped identifier has raised the driver's error of the
\* old context's close(); the old context is still mapped and still live.
C39_Witness ==
    \E t \in Tasks :
        /\ Done(t, "create_context") /\ task[t].outcome = "raised"
        /\ task[t].exc \in DriverFailures
        /\ task[t].old = NoCtx
        /\ contexts[task[t].sid] # NoCtx
        /\ ctxState[contexts[task[t].sid]] = "live"

\* =========================================== the built-in extractors' extract
\* The awaited page calls of ProfileExtractor.extract (profile.py:65-91, the
\* second navigation with its wait counted as one call, _parse_profile_page and
\* _extract_basic_profile each as one) and of TasksExtractor.extract
\* (tasks.py:70-79).
ProfileCalls ==
    {"wait_for_load_state", "wait_for_timeout", "goto", "goto_retry",
     "wait_for_selector", "parse_profile_page", "basic_profile"}
TasksCalls == {"goto", "wait_for_selector", "extract_active_classes"}

\* _extract_basic_profile, profile.py:243-265: whatever is raised inside is
\* caught and the minimal payload returned.
extract_basic_profile(fails) ==
    IF "basic_profile" \in fails THEN [raised |-> "none", payload |-> "unknown"]
    ELSE [raised |-> "none", payload |-> "basic"]

\* ProfileExtractor.extract without the except clause of lines 88-91.
profile_extract_NoFallback(fails) ==
    IF \/ "wait_for_load_state" \in fails \/ "wait_for_timeout" \in fails
       \/ {"goto", "goto_retry"} \subseteq fails
       \/ "wait_for_selector" \in fails \/ "parse_profile_page" \in fails
    THEN [raised |-> "Exception", payload |-> "none"]
    ELSE [raised |-> "none", payload |-> "profile_data"]

\* ProfileExtractor.extract, profile.py:65-91; fails is the set of calls that
\* raise when they are reached.
profile_extract(fails) ==
    IF "wait_for_load_state" \in fails \/ "wait_for_timeout" \in fails
    THEN extract_basic_profile(fails)
    ELSE IF "goto" \in fails /\ "goto_retry" \in fails
    THEN extract_basic_profile(fails)
    ELSE IF "wait_for_selector" \in fails \/ "parse_profile_page" \in fails
    THEN extract_basic_profile(fails)
    ELSE [raised |-> "none", payload |-> "profile_data"]

\* TasksExtractor.extract, tasks.py:70-110.
tasks_extract(fails) ==
    IF fails # {} THEN [raised |-> "none", payload |-> "error"]
    ELSE [raised |-> "none", payload |-> "classes"]

\* The extractor loop of ExtractOrchestrator.extract (orchestrator.py:158-178)
\* over include lists of built-in names.

BxStart(t) ==
    /\ task[t].pc = "idle"
    /\ \E inc \in {<<"profile">>, <<"tasks">>, <<"profile", "tasks">>, <<"tasks", "profile">>} :
        task' = [task EXCEPT ![t] =
            [IdleTask EXCEPT !.op = "run_extractors", !.pc = "bx_loop",
                             !.stack = <<"top">>, !.include = inc, !.idx = 1]]
    /\ UNCHANGED <<playwright, browser, connected, contexts, extractors>>
    /\ Same

BxLoop(t) ==
    LET tk == task[t]
        name == tk.include[tk.idx] IN
    /\ tk.pc = "bx_loop"
    /\ \E fails \in SUBSET (IF name = "profile" THEN ProfileCalls ELSE TasksCalls) :
        LET r == IF name = "profile" THEN profile_extract(fails) ELSE tasks_extract(fails)
            tk1 == [tk EXCEPT !.attempted = Append(@, name), !.idx = @ + 1,
                              !.parts = Append(@, [name |-> name, fails |-> fails,
                                                   payload |-> r.payload])]
            tk2 == IF ~InSeq(name, extractors)
                   THEN [tk1 EXCEPT !.errors = Append(@,
                            [src |-> name, kind |-> "ValueError", named |-> TRUE])]
                   ELSE IF r.raised = "none"
                   THEN [tk1 EXCEPT !.extracted_data =
                            IF InSeq(name, @) THEN @ ELSE Append(@, name)]
                   ELSE [tk1 EXCEPT !.errors = Append(@,
                            [src |-> name, kind |-> r.raised, named |-> TRUE])]
        IN task' = [task EXCEPT ![t] =
               IF tk.idx = Len(tk.include) THEN DoReturn(tk2) ELSE tk2]
    /\ UNCHANGED <<playwright, browser, connected, contexts, extractors>>
    /\ Same

SpecBuiltins == Init /\ [][BxStart(Caller) \/ BxLoop(Caller) \/ Finish(Caller)]_vars

\* ------------------------------------------------------------------ C40
\* C40: the two registered extractors never raise: whichever page calls fail,
\* a payload comes back, the fallback one when the main path failed; in the
\* orchestrator's loop such an extractor is listed among the extracted names
\* and adds no error entry.
C40_MainPathFails(p) ==
    IF p.name = "tasks" THEN p.fails # {}
    ELSE \/ p.fails \cap {"wait_for_load_state", "wait_for_timeout",
                          "wait_for_selector", "parse_profile_page"} # {}
         \/ {"goto", "goto_retry"} \subseteq p.fails

C40_BuiltinsNeverRaise ==
    \A t \in Tasks : task[t].op = "run_extractors" =>
        /\ task[t].errors = <<>>
        /\ \A i \in 1..Len(task[t].parts) :
              LET p == task[t].parts[i] IN
              /\ InSeq(p.name, task[t].extracted_data)
              /\ p.payload # "none"
              /\ C40_MainPathFails(p) <=> p.payload \in {"basic", "unknown", "error"}

\* Both extractors were run with every page call failing; both are listed.
C40_Witness ==
    \E t \in Tasks :
        /\ Done(t, "run_extractors")
        /\ task[t].include = <<"profile", "tasks">>
        /\ task[t].parts[1].fails = ProfileCalls /\ task[t].parts[1].payload = "unknown"
        /\ task[t].parts[2].fails = TasksCalls /\ task[t].parts[2].payload = "error"
        /\ task[t].extracted_data = <<"profile", "tasks">>
        /\ task[t].errors = <<>>

====
